---- MODULE Spec2Model ----
(***************************************************************************)
(* Provider negotiation and concurrent dispatch core.                      *)
(*                                                                         *)
(*   src/src/lib/receptionistSimulator.ts  getProvider, simulateProviderCall*)
(*   src/src/lib/swarmOrchestrator.ts      SwarmOrchestrator               *)
(*                                                                         *)
(* Conventions.  A slot is a date-time string, kept as its wall-clock      *)
(* digits t (minutes since 00:00 of day 0) and whether it ends in Z.  An   *)
(* instant is in minutes of UTC since 00:00 of day 0.                      *)
(* A rating is in tenths of a star (48 is 4.8).  A probability and a       *)
(* random draw are in hundredths (90 is 0.9).  JavaScript runs one task at *)
(* a time: the code between two awaits is a synchronous section, and while *)
(* an invocation is inside one (Busy) nothing else takes a step.           *)
(***************************************************************************)
EXTENDS Integers, Sequences, FiniteSets, TLC

\* ------------------------------------------------------------------ bounds

\* Providers in the directory: ids 1..NumProviders.
NumProviders == 3
\* Largest maxConcurrentCalls a constructor is given (0 included).
MaxConcurrent == 3
\* executeSwarm is called again on an orchestrator whose previous invocation
\* ran over at most this many providers.
ReuseLen == 1
\* Longest provider list of the invocations whose timers and negotiations are
\* followed past the end of their race (SpecRace).
RaceLen == 2
\* Longest provider list of the second of two invocations that overlap on one
\* orchestrator (SpecOverlap); the first is given up to RaceLen providers.
OverlapLen == 1

\* --------------------------------------------------------------- constants

\* undefined / null where a record is expected.
Null == [null |-> TRUE]
\* A date-time string without a zone ("2026-02-10T10:00:00") and one that
\* ends in Z ("2026-02-10T10:00:00Z").
Bare(t) == [t |-> t, z |-> FALSE]

Zulu(t) == [t |-> t, z |-> TRUE]

\* bookedSlot left undefined; find returning undefined.
NoSlot == [t |-> -1, z |-> FALSE]

ProviderIds == 1..NumProviders

\* Requested slots an invocation is given: day 0 at 10:00 and at 11:30.
RequestedSlots == {Bare(600), Bare(690)}

\* Offsets of the process's time zone from UTC, in minutes: New York in
\* winter and UTC.
TimeZones == {-300, 0}

\* Values Math.random() takes, in hundredths.
Draws == {25, 60, 80, 95}

\* ------------------------------------------------------------------- state

VARIABLES
  config,          \* this.config: [maxConcurrentCalls, stopOnFirstSuccess]
  objs,            \* the SwarmCallStatus objects: ref -> [providerId, status, result]
  callStatuses,    \* this.callStatuses: entries [key, ref] in insertion order
  abortController, \* this.abortController: "null", "live" or "aborted" (its signal)
  runs,            \* the executeSwarm invocations: run id -> its locals
  onStatusUpdate,  \* this.onStatusUpdate: [defined, throwsOn]
  notified,        \* what the status callback was handed: ref -> statuses, in order
  timeZone,        \* offset of the process's time zone from UTC, in minutes
  negotiation,     \* a negotiation called from outside the orchestrator
  ranking,         \* a call of rankProviders: its arguments and what it returned
  swarm,           \* a call of simulateSwarmCalls: its map callbacks and what it returned
  search,          \* bookingSessions and the clock, with the last search's arguments
  component,       \* a mounted BookingStatus: its props, state, ref and timer
  webhook          \* a request to POST: its body, the handlers run, the response

vars == <<config, objs, callStatuses, abortController, runs, onStatusUpdate,
          notified, timeZone, negotiation, ranking, swarm, search, component,
          webhook>>

\* What lives outside the orchestrator, the negotiation and the ranking.
outside == <<swarm, search, component, webhook>>

\* What no step of the orchestrator changes.
settings == <<config, onStatusUpdate, timeZone, negotiation, ranking, outside>>

\* ------------------------------------------------------ provider directory

\* The directory repeats three entries.  At a request for 10:00 the first
\* two book 10:30 and differ in rating, the third books 10:00; at a request
\* for 11:30 all three book 10:30 and the first and third have equal rating.
\* Further entries, outside the lists the orchestrator is given by default:
\* a busy provider with an earlier slot, one with no slot, one whose first
\* slot is at night, one whose first slot is before opening, and two whose
\* slots end in Z.
BusyEarly == 101
NoSlots == 102
NightFirst == 103
EarlyFirst == 104
ZuluNoon == 105
ZuluNight == 106

ExtraIds == {BusyEarly, NoSlots, NightFirst, EarlyFirst, ZuluNoon, ZuluNight}

\* An id no directory entry has and that does not start with synth_.
UnknownId == 0

\* The ids synth_<category>_01 and synth_<category>_02.
SynthIds == {201, 202}

Directory ==
  [id \in ProviderIds \cup ExtraIds |->
     CASE id = BusyEarly  -> [id |-> id, rating |-> 35,
                              availableSlots |-> <<Bare(570), Bare(630)>>]
       [] id = NoSlots    -> [id |-> id, rating |-> 42, availableSlots |-> <<>>]
       [] id = NightFirst -> [id |-> id, rating |-> 48,
                              availableSlots |-> <<Bare(1335), Bare(660)>>]
       [] id = EarlyFirst -> [id |-> id, rating |-> 40,
                              availableSlots |-> <<Bare(1440 + 450), Bare(600)>>]
       [] id = ZuluNoon   -> [id |-> id, rating |-> 45,
                              availableSlots |-> <<Zulu(900), Zulu(600)>>]
       [] id = ZuluNight  -> [id |-> id, rating |-> 39,
                              availableSlots |-> <<Zulu(1320)>>]
       [] id % 3 = 1 -> [id |-> id, rating |-> 48, availableSlots |-> <<Bare(630)>>]
       [] id % 3 = 2 -> [id |-> id, rating |-> 42, availableSlots |-> <<Bare(630)>>]
       [] OTHER      -> [id |-> id, rating |-> 48,
                         availableSlots |-> <<Bare(600), Bare(630)>>]]

\* The provider made up for a synth_ id: today at 10:00 and 14:30 and
\* tomorrow at 09:00, today being day 0.
synthProvider(providerId) ==
  [id |-> providerId,
   rating |-> IF providerId = 201 THEN 47 ELSE 49,
   availableSlots |-> <<Bare(600), Bare(870), Bare(1440 + 540)>>]

getProvider(providerId) ==
  IF providerId \in DOMAIN Directory THEN Directory[providerId]
  ELSE IF providerId \in SynthIds THEN synthProvider(providerId)
  ELSE Null

\* ------------------------------------------------------------ negotiation

PERSONALITIES ==
  [friendly |-> [responseDelay |-> 1200, availabilityRate |-> 80],
   neutral  |-> [responseDelay |-> 1800, availabilityRate |-> 60],
   busy     |-> [responseDelay |-> 2500, availabilityRate |-> 40]]

\* The personality with neutral starting above 4.0.
personalityType_NeutralAbove(rating) ==
  IF rating >= 45 THEN "friendly" ELSE IF rating > 40 THEN "neutral" ELSE "busy"

personalityType(rating) ==
  IF rating >= 45 THEN "friendly" ELSE IF rating >= 40 THEN "neutral" ELSE "busy"

Abs(x) == IF x < 0 THEN -x ELSE x

\* String.prototype.replace('Z', '')
stripZ(slot) == Bare(slot.t)

\* new Date(slot).getTime(): a string without a zone is local time.
getTime(slot) == IF slot.z THEN slot.t ELSE slot.t - timeZone

\* Date.prototype.getHours: the hour of the instant in the local zone.
getHours(slot) == ((getTime(slot) + timeZone) \div 60) % 24

\* The after-hours test with 07:00 to 07:59 left open.
isAfterHours_SevenOpen(slot) == getHours(slot) >= 22 \/ getHours(slot) < 7

isAfterHours(slot) == getHours(slot) >= 22 \/ getHours(slot) <= 7

\* parseInt of the hour digits of the string.
parseHour(slot) == (slot.t \div 60) % 24

\* The sum of the delays with the first line left out.
SumDelays_FromSecond(transcript) ==
  LET rest[n \in 0..Len(transcript)] ==
        IF n <= 1 THEN 0 ELSE rest[n - 1] + transcript[n].delay
  IN rest[Len(transcript)]

RECURSIVE SumDelays(_)
SumDelays(transcript) ==
  IF transcript = <<>> THEN 0
  ELSE Head(transcript).delay + SumDelays(Tail(transcript))

\* Array.prototype.find over availableSlots: the first slot within 60
\* minutes of the request, NoSlot when there is none.
RECURSIVE findSlot(_, _)
findSlot(slots, requestedTime) ==
  IF slots = <<>> THEN NoSlot
  ELSE IF Abs(getTime(Head(slots)) - requestedTime) <= 60 THEN Head(slots)
  ELSE findSlot(Tail(slots), requestedTime)

\* The alternative taken from availableSlots[0] as it is.
alternativeOf_AsListed(slots) == slots[1]

\* The alternative offered on failure: availableSlots[0] without its Z,
\* moved to 10:00 of the same day when its hour is outside 8..18.
alternativeOf(slots) ==
  LET alternative == stripZ(slots[1])
      altHour == parseHour(alternative)
  IN
  IF altHour < 8 \/ altHour > 18
    THEN Bare((alternative.t \div 1440) * 1440 + 600)
    ELSE alternative

Line(role, line, delay) == [role |-> role, line |-> line, delay |-> delay]

\* The test of line 184 asking for a second slot.
hasAvailableSlots_TwoOrMore(provider) == Len(provider.availableSlots) > 1

\* provider.availableSlots.length > 0
hasAvailableSlots(provider) == Len(provider.availableSlots) > 0

simulateProviderCall(providerId, requestedSlot, draw) ==
  LET provider == getProvider(providerId) IN
  IF provider = Null
    THEN [success |-> FALSE, providerId |-> providerId,
          message |-> "Provider not found in directory",
          bookedSlot |-> NoSlot, alternativeSlots |-> <<>>,
          waitTime |-> 500,
          transcript |-> <<Line("receptionist", "unknown", 0)>>]
    ELSE
      LET kind == personalityType(provider.rating)
          personality == PERSONALITIES[kind]
          opening == <<Line("receptionist", "greeting", 500),
                       Line("alfred", "request", 800),
                       Line("receptionist", "requestResponse",
                            personality.responseDelay)>>
          availableSlot == IF isAfterHours(requestedSlot) THEN NoSlot
                           ELSE findSlot(provider.availableSlots,
                                         getTime(requestedSlot))
          isAvailable == availableSlot # NoSlot
                         /\ draw < personality.availabilityRate + 10
      IN
      IF isAvailable
        THEN LET transcript == opening \o
                   <<Line("receptionist", "available", 1000),
                     Line("alfred", "confirm", 500),
                     Line("receptionist", "booked", 800)>>
             IN [success |-> TRUE, providerId |-> providerId,
                 message |-> "booked",
                 bookedSlot |-> stripZ(availableSlot),
                 alternativeSlots |-> <<>>,
                 waitTime |-> SumDelays(transcript),
                 transcript |-> transcript]
      ELSE IF hasAvailableSlots(provider)
        THEN LET transcript == opening \o
                   <<Line("receptionist", "unavailable", 1000),
                     Line("alfred", "checkWithUser", 500)>>
             IN [success |-> FALSE, providerId |-> providerId,
                 message |-> "unavailable",
                 bookedSlot |-> NoSlot,
                 alternativeSlots |-> <<alternativeOf(provider.availableSlots)>>,
                 waitTime |-> SumDelays(transcript),
                 transcript |-> transcript]
      ELSE LET transcript == opening \o
                   <<Line("receptionist", "noSlots", 1000)>>
             IN [success |-> FALSE, providerId |-> providerId,
                 message |-> "noSlots",
                 bookedSlot |-> NoSlot, alternativeSlots |-> <<>>,
                 waitTime |-> SumDelays(transcript),
                 transcript |-> transcript]

\* The first slot of slots whose time lies in [rangeStart, rangeEnd]
\* (lines 259-262), NoSlot when there is none.
RECURSIVE findInRange(_, _, _)
findInRange(slots, rangeStart, rangeEnd) ==
  IF slots = <<>> THEN NoSlot
  ELSE IF getTime(Head(slots)) >= rangeStart /\ getTime(Head(slots)) <= rangeEnd
    THEN Head(slots)
  ELSE findInRange(Tail(slots), rangeStart, rangeEnd)

\* What simulateSwarmCalls does for one provider id (lines 244-268).  The
\* result for an id the lookup does not know is cast to CallResult with no
\* transcript, bookedSlot or alternativeSlots: its transcript has no line.
simulateSwarmCall(providerId, preferredTimeRange, draw) ==
  LET provider == getProvider(providerId) IN
  IF provider = Null
    THEN [success |-> FALSE, providerId |-> providerId,
          message |-> "Provider not found",
          bookedSlot |-> NoSlot, alternativeSlots |-> <<>>,
          waitTime |-> 500, transcript |-> <<>>]
    ELSE
      LET matchingSlot == findInRange(provider.availableSlots,
                                      getTime(preferredTimeRange.start),
                                      getTime(preferredTimeRange.end))
      IN IF matchingSlot # NoSlot
           THEN simulateProviderCall(providerId, matchingSlot, draw)
           ELSE simulateProviderCall(providerId, preferredTimeRange.start, draw)

\* ------------------------------------------------------ orchestrator state

RunIds == {1, 2}

\* A reference to no object (undefined).
NoRef == <<>>

\* The status object made for the k-th provider of invocation r.
Ref(r, k) == <<r, k>>

NoTask == [ref |-> NoRef, state |-> "none", neg |-> "none", timer |-> "none"]

IdleRun ==
  [pc |-> "idle", providers |-> <<>>, requestedSlot |-> Bare(0), batches |-> <<>>,
   i |-> 0, spin |-> FALSE, bi |-> 0, firstSuccess |-> NoRef,
   calls |-> <<>>, out |-> Null]

\* Provider lists handed to executeSwarm: providers of the directory, each
\* at most once, in any order.
ProviderLists ==
  UNION {{ps \in [1..n -> ProviderIds] :
            \A a, b \in 1..n : a # b => ps[a] # ps[b]} : n \in 0..NumProviders}

Min(a, b) == IF a <= b THEN a ELSE b

\* ------------------------------------------------------------- Map helpers

RECURSIVE MapGet(_, _)
MapGet(m, key) ==
  IF m = <<>> THEN NoRef
  ELSE IF Head(m).key = key THEN Head(m).ref
  ELSE MapGet(Tail(m), key)

MapHas(m, key) == \E n \in 1..Len(m) : m[n].key = key

\* Map.prototype.set: an existing key keeps its place, a new key goes last.
MapSet(m, key, ref) ==
  IF MapHas(m, key)
    THEN [n \in 1..Len(m) |->
            IF m[n].key = key THEN [key |-> key, ref |-> ref] ELSE m[n]]
    ELSE Append(m, [key |-> key, ref |-> ref])

\* Array.from(map.values())
MapValues(m) == [n \in 1..Len(m) |-> m[n].ref]

\* Array.prototype.filter
Filter(seq, Keep(_)) == SelectSeq(seq, Keep)

\* ---------------------------------------------------------- createBatches

\* slice with its end taken inclusive.
slice_EndInclusive(n, start, end) ==
  [j \in 1..(Min(end + 1, n) - Min(start, n)) |-> Min(start, n) + j]

\* items.slice(start, end) over the positions 1..n of the provider list
\* (start and end are 0-based, end exclusive).
slice(n, start, end) ==
  [j \in 1..(Min(end, n) - Min(start, n)) |-> Min(start, n) + j]

\* Batches kept in the state; a loop that never ends keeps only this many.
BatchCap == NumProviders + 1

\* The loop test with the end of the list included.
loopTest_Inclusive(i, n) == i <= n

\* The test of the for loop of createBatches: i < items.length.
loopTest(i, n) == i < n

\* ------------------------------------------------------- selectBestMatch

ratingOf(o) ==
  LET provider == getProvider(o.providerId) IN
  IF provider = Null THEN 0 ELSE provider.rating

\* The comparator with the ratings subtracted the other way round.
compareMatches_LowerRatingFirst(a, b) ==
  IF getTime(a.result.bookedSlot) # getTime(b.result.bookedSlot)
    THEN getTime(a.result.bookedSlot) - getTime(b.result.bookedSlot)
    ELSE ratingOf(a) - ratingOf(b)

\* The comparator handed to sort: negative when a goes first.
compareMatches(a, b) ==
  IF getTime(a.result.bookedSlot) # getTime(b.result.bookedSlot)
    THEN getTime(a.result.bookedSlot) - getTime(b.result.bookedSlot)
    ELSE ratingOf(b) - ratingOf(a)

\* Array.prototype.sort is stable: x goes after every element that does
\* not compare greater than it.
RECURSIVE InsertSorted(_, _, _)
InsertSorted(x, sorted, heap) ==
  IF sorted = <<>> THEN <<x>>
  ELSE IF compareMatches(heap[Head(sorted)], heap[x]) <= 0
    THEN <<Head(sorted)>> \o InsertSorted(x, Tail(sorted), heap)
    ELSE <<x>> \o sorted

RECURSIVE StableSort(_, _)
StableSort(seq, heap) ==
  IF seq = <<>> THEN <<>>
  ELSE InsertSorted(seq[Len(seq)], StableSort(SubSeq(seq, 1, Len(seq) - 1), heap), heap)

isBookedSuccess(o) ==
  o.status = "success" /\ o.result # Null /\ o.result.bookedSlot # NoSlot

selectBestMatch(statuses, heap) ==
  LET KeepRef(ref) == isBookedSuccess(heap[ref])
      successful == Filter(statuses, KeepRef)
  IN IF Len(successful) = 0 THEN NoRef ELSE StableSort(successful, heap)[1]

\* ------------------------------------------------------------ executeCall

\* A callback that records what it is handed and returns.
Logging == [defined |-> TRUE, throwsOn |-> {}]

\* A callback that also counts its calls: it records each status with the
\* number of the call that handed it over.
Counting == [defined |-> TRUE, throwsOn |-> {}, counts |-> TRUE]

\* How many times the callback has been called.
Handed(log) ==
  Cardinality(UNION {{<<ref, n>> : n \in 1..Len(log[ref])} : ref \in DOMAIN log})

\* this.onStatusUpdate?.(status): the callback, when one is set, is handed
\* the status object as it is now.
notify(log, heap, ref) ==
  IF onStatusUpdate.defined
    THEN [log EXCEPT ![ref] =
            Append(log[ref],
                   IF "counts" \in DOMAIN onStatusUpdate
                     THEN [status |-> heap[ref].status, at |-> Handed(log) + 1]
                     ELSE heap[ref].status)]
    ELSE log

\* The callback throws when handed this status object.
callbackThrows(heap, ref) ==
  onStatusUpdate.defined /\ heap[ref].status \in onStatusUpdate.throwsOn

\* updateStatus without the call of the callback.
updateStatus_Silent(st, ref) ==
  [st EXCEPT !.map = MapSet(st.map, st.objs[ref].providerId, ref),
             !.threw = FALSE]

\* updateStatus (lines 188-191) on [objs, map, notified, ...]: the status
\* is set in the map under its provider id and the callback is called;
\* threw tells whether the callback threw.
updateStatus(st, ref) ==
  [st EXCEPT !.map = MapSet(st.map, st.objs[ref].providerId, ref),
             !.notified = notify(st.notified, st.objs, ref),
             !.threw = callbackThrows(st.objs, ref)]

\* Lines 132-144 of executeCall, up to its await: look the status up, mark
\* it calling, tell the callback, start the negotiation and arm the timer.
\* A provider whose id the map does not hold gives undefined, and the
\* assignment throws; a callback that throws does so before the try: either
\* way the call's promise is rejected.  st is [objs, map, notified, threw,
\* calls].
launchCall(st, providerId, k) ==
  LET status == MapGet(st.map, providerId) IN
  IF status = NoRef
    THEN [st EXCEPT !.calls[k] = [NoTask EXCEPT !.state = "rejected"]]
    ELSE
      LET upd == updateStatus(
                   [st EXCEPT !.objs[status].status = "calling"], status)
      IN [upd EXCEPT !.calls[k] =
            IF upd.threw
              THEN [NoTask EXCEPT !.ref = status, !.state = "rejected"]
              ELSE [ref |-> status, state |-> "racing",
                    neg |-> "pending", timer |-> "armed"]]

\* The calls of a batch launched from its last provider to its first.
launchAll_LastFirst(st, providers, batch) ==
  LET n == Len(batch)
      after[j \in 0..n] ==
        IF j = 0 THEN st
        ELSE launchCall(after[j - 1], providers[batch[n + 1 - j]],
                        batch[n + 1 - j])
  IN after[n]

\* batch.map(provider => this.executeCall(...)): in batch order, each call
\* starting from the state the one before it left (next).
RECURSIVE launchAll(_, _, _)
launchAll(st, providers, batch) ==
  IF batch = <<>> THEN st
  ELSE CHOOSE out \in
         {launchAll(next, providers, Tail(batch)) :
            next \in {launchCall(st, providers[Head(batch)], Head(batch))}} :
         TRUE

\* Lines 146-153: the status after the race, by its winner.
settleResult(o, result) ==
  [o EXCEPT !.status = IF result.success THEN "success" ELSE "failed",
            !.result = result]

\* A timeout recorded as a plain failure.
settleTimeout_AsFailed(o) == [o EXCEPT !.status = "failed"]

settleTimeout(o) == [o EXCEPT !.status = "timeout"]

\* Lines 154-157: the negotiation's promise was rejected.
settleError(o) == [o EXCEPT !.status = "failed"]

\* --------------------------------------------------- cancelRemainingCalls

\* cancelRemainingCalls without its forEach.
cancelStatuses_None(heap, m) == heap

\* cancelRemainingCalls cancelling the calls in flight as well.
cancelStatuses_InFlightToo(heap, m) ==
  [ref \in DOMAIN heap |->
     IF (\E n \in 1..Len(m) : m[n].ref = ref)
        /\ heap[ref].status \in {"pending", "calling"}
       THEN [heap[ref] EXCEPT !.status = "cancelled"]
       ELSE heap[ref]]

\* The forEach of cancelRemainingCalls: every status of the map that is
\* pending becomes cancelled.
cancelStatuses(heap, m) ==
  [ref \in DOMAIN heap |->
     IF (\E n \in 1..Len(m) : m[n].ref = ref) /\ heap[ref].status = "pending"
       THEN [heap[ref] EXCEPT !.status = "cancelled"]
       ELSE heap[ref]]

abortSignal_Never(controller) == controller

\* this.abortController?.abort()
abortSignal(controller) == IF controller = "null" THEN "null" ELSE "aborted"

\* The statuses of the map that are pending, in the order of the map.
pendingRefs(heap, m) ==
  LET IsPending(ref) == heap[ref].status = "pending"
  IN SelectSeq(MapValues(m), IsPending)

\* cancelRemainingCalls (lines 175-183) on [objs, map, notified, controller]:
\* every pending status becomes cancelled and the callback is told of each,
\* then the signal is aborted.  A callback that throws ends the forEach at
\* the first pending status and the signal is left as it was.
cancelRemainingCalls(st) ==
  LET pending == pendingRefs(st.objs, st.map)
      first == pending[1]
      one == [st.objs EXCEPT ![first].status = "cancelled"]
      all == cancelStatuses(st.objs, st.map)
      told == {ref \in DOMAIN all : /\ all[ref].status = "cancelled"
                                     /\ st.objs[ref].status # "cancelled"}
  IN
  IF pending # <<>> /\ callbackThrows(one, first)
    THEN [st EXCEPT !.objs = one,
                    !.notified = notify(st.notified, one, first),
                    !.threw = TRUE]
    ELSE [st EXCEPT !.objs = all,
                    !.notified = [ref \in DOMAIN st.notified |->
                                    IF ref \in told
                                      THEN notify(st.notified, all, ref)[ref]
                                      ELSE st.notified[ref]],
                    !.controller = abortSignal(st.controller),
                    !.threw = FALSE]

\* ---------------------------------------------------------- executeSwarm

Busy == \E r \in RunIds : runs[r].pc \in {"batching", "loop"}

Active(r) == runs[r].pc \notin {"idle", "done"}

\* this.callStatuses.clear()
clearStatuses(m) == <<>>

\* The forEach of lines 74-80, from the k-th provider on: one new status
\* object per provider, set in the map under the provider's id.
RECURSIVE initStatuses(_, _, _, _)
initStatuses(m, r, providers, k) ==
  IF k > Len(providers) THEN m
  ELSE initStatuses(MapSet(m, providers[k], Ref(r, k)), r, providers, k + 1)

\* Lines 69-83, to the call of createBatches, for a provider list of lists
\* and a requested slot of slots.  The status objects of the invocation's
\* earlier use are no longer referenced and are dropped.
ExecuteWith(r, lists, slots) ==
  /\ ~Busy
  /\ \/ runs[r].pc = "idle"
     \/ runs[r].pc = "done" /\ Len(runs[r].providers) <= ReuseLen
  /\ \E ps \in lists, slot \in slots :
       LET n == Len(ps)
           mine == {Ref(r, k) : k \in 1..n}
           kept == {ref \in DOMAIN objs : ref[1] # r}
       IN
       /\ abortController' = "live"
       /\ callStatuses' = initStatuses(clearStatuses(callStatuses), r, ps, 1)
       /\ objs' = [ref \in kept \cup mine |->
                     IF ref \in mine
                       THEN [providerId |-> ps[ref[2]], status |-> "pending",
                             result |-> Null]
                       ELSE objs[ref]]
       /\ notified' = [ref \in kept \cup mine |->
                         IF ref \in mine THEN <<>> ELSE notified[ref]]
       /\ runs' = [runs EXCEPT ![r] =
                     [IdleRun EXCEPT !.pc = "batching", !.providers = ps,
                                     !.requestedSlot = slot,
                                     !.calls = [k \in 1..n |-> NoTask]]]
  /\ UNCHANGED settings

Execute(r) == ExecuteWith(r, ProviderLists, RequestedSlots)

\* One iteration of the for loop of createBatches (lines 220-222), or its
\* exit.  With a batch size of 0 the index never advances: the loop goes
\* on pushing empty batches, of which the state keeps BatchCap and then
\* only the parity of the iteration count (spin).
CreateBatchesStep(r) ==
  LET run == runs[r]
      n == Len(run.providers)
      batchSize == config.maxConcurrentCalls
  IN
  /\ run.pc = "batching"
  /\ IF loopTest(run.i, n)
       THEN runs' = [runs EXCEPT
              ![r].batches = IF Len(run.batches) < BatchCap
                               THEN Append(run.batches,
                                           slice(n, run.i, run.i + batchSize))
                               ELSE run.batches,
              ![r].spin = IF Len(run.batches) < BatchCap
                            THEN run.spin ELSE ~run.spin,
              ![r].i = run.i + batchSize]
       ELSE runs' = [runs EXCEPT ![r].pc = "loop", ![r].bi = 1]
  /\ UNCHANGED <<settings, objs, callStatuses, abortController, notified>>

\* The second break taken on a success whatever stopOnFirstSuccess is.
loopBreaks_OnAnySuccess(run) ==
  \/ abortController = "aborted"
  \/ run.firstSuccess # NoRef

\* Lines 87-88: the two breaks at the head of the batch loop.
loopBreaks(run) ==
  \/ abortController = "aborted"
  \/ config.stopOnFirstSuccess /\ run.firstSuccess # NoRef

\* Lines 86-94: the next batch is launched, up to the await of allSettled.
LaunchBatch(r) ==
  LET run == runs[r] IN
  /\ run.pc = "loop"
  /\ run.bi <= Len(run.batches)
  /\ ~loopBreaks(run)
  /\ LET st == launchAll([objs |-> objs, map |-> callStatuses,
                          notified |-> notified, threw |-> FALSE,
                          calls |-> run.calls],
                         run.providers, run.batches[run.bi])
     IN /\ objs' = st.objs
        /\ callStatuses' = st.map
        /\ notified' = st.notified
        /\ runs' = [runs EXCEPT ![r].calls = st.calls, ![r].pc = "await"]
  /\ UNCHANGED <<settings, abortController>>

\* The SwarmResult with the timeouts left out of failedCalls.
swarmResult_TimeoutsDropped(providers, m, heap) ==
  LET allStatuses == MapValues(m)
      IsSuccess(ref) == heap[ref].status = "success"
      IsFailed(ref) == heap[ref].status = "failed"
      IsCancelled(ref) == heap[ref].status = "cancelled"
  IN [totalProviders |-> Len(providers),
      successfulBookings |-> Filter(allStatuses, IsSuccess),
      failedCalls |-> Filter(allStatuses, IsFailed),
      cancelledCalls |-> Filter(allStatuses, IsCancelled),
      bestMatch |-> selectBestMatch(allStatuses, heap),
      callStatuses |-> allStatuses]

\* The SwarmResult with the cancelled calls listed among the failures too.
swarmResult_CancelledAsFailed(providers, m, heap) ==
  LET allStatuses == MapValues(m)
      IsSuccess(ref) == heap[ref].status = "success"
      IsFailed(ref) == heap[ref].status \in {"failed", "timeout", "cancelled"}
      IsCancelled(ref) == heap[ref].status = "cancelled"
  IN [totalProviders |-> Len(providers),
      successfulBookings |-> Filter(allStatuses, IsSuccess),
      failedCalls |-> Filter(allStatuses, IsFailed),
      cancelledCalls |-> Filter(allStatuses, IsCancelled),
      bestMatch |-> selectBestMatch(allStatuses, heap),
      callStatuses |-> allStatuses]

\* Lines 110-121: the SwarmResult, built from the map as it is now.
swarmResult(providers, m, heap) ==
  LET allStatuses == MapValues(m)
      IsSuccess(ref) == heap[ref].status = "success"
      IsFailed(ref) == heap[ref].status \in {"failed", "timeout"}
      IsCancelled(ref) == heap[ref].status = "cancelled"
  IN [totalProviders |-> Len(providers),
      successfulBookings |-> Filter(allStatuses, IsSuccess),
      failedCalls |-> Filter(allStatuses, IsFailed),
      cancelledCalls |-> Filter(allStatuses, IsCancelled),
      bestMatch |-> selectBestMatch(allStatuses, heap),
      callStatuses |-> allStatuses]

\* The loop is left (no batch remains, or a break) and the result returned.
Return(r) ==
  LET run == runs[r] IN
  /\ run.pc = "loop"
  /\ run.bi > Len(run.batches) \/ loopBreaks(run)
  /\ runs' = [runs EXCEPT ![r].pc = "done",
                          ![r].out = swarmResult(run.providers, callStatuses, objs)]
  /\ UNCHANGED <<settings, objs, callStatuses, abortController, notified>>

\* The rest of executeCall after its await (lines 146-160) for the call k
\* of invocation r, whose status object has become settled: the callback is
\* told and the call's promise is fulfilled, or rejected when the callback
\* throws.  how names what decided the race.
finishCall(r, k, settled, how) ==
  LET ref == runs[r].calls[k].ref
      upd == updateStatus([objs |-> [objs EXCEPT ![ref] = settled],
                           map |-> callStatuses, notified |-> notified,
                           threw |-> FALSE], ref)
      state == IF upd.threw THEN "rejected" ELSE "fulfilled"
  IN
  /\ objs' = upd.objs
  /\ callStatuses' = upd.map
  /\ notified' = upd.notified
  /\ runs' = [runs EXCEPT
       ![r].calls[k] =
         [@ EXCEPT !.state = state,
                   !.neg = IF how = "result" THEN "delivered"
                           ELSE IF how = "error" THEN "failed" ELSE @,
                   !.timer = IF how = "timer" THEN "fired" ELSE @]]
  /\ UNCHANGED <<settings, abortController>>

\* The negotiation wins the race (lines 146, 150-153, 159).
CallSettles(r, k) ==
  LET run == runs[r] IN
  /\ ~Busy
  /\ k \in 1..Len(run.calls)
  /\ run.calls[k].state = "racing"
  /\ \E draw \in Draws :
       finishCall(r, k,
                  settleResult(objs[run.calls[k].ref],
                               simulateProviderCall(run.providers[k],
                                                    run.requestedSlot, draw)),
                  "result")

\* The timer wins the race (lines 146-149, 159, 166-170).
CallTimesOut(r, k) ==
  LET run == runs[r] IN
  /\ ~Busy
  /\ k \in 1..Len(run.calls)
  /\ run.calls[k].state = "racing"
  /\ finishCall(r, k, settleTimeout(objs[run.calls[k].ref]), "timer")

\* The negotiation's promise is rejected before the timer fires (lines
\* 154-157, 159).
CallFails(r, k) ==
  LET run == runs[r] IN
  /\ ~Busy
  /\ k \in 1..Len(run.calls)
  /\ run.calls[k].state = "racing"
  /\ finishCall(r, k, settleError(objs[run.calls[k].ref]), "error")

\* The negotiation's promise settles after the race was decided: nobody
\* awaits it any more.
LateResult(r, k) ==
  LET run == runs[r] IN
  /\ ~Busy
  /\ k \in 1..Len(run.calls)
  /\ run.calls[k].state = "fulfilled"
  /\ run.calls[k].neg = "pending"
  /\ runs' = [runs EXCEPT ![r].calls[k].neg = "delivered"]
  /\ UNCHANGED <<settings, objs, callStatuses, abortController, notified>>

\* The timer fires after the race was decided.
LateTimer(r, k) ==
  LET run == runs[r] IN
  /\ ~Busy
  /\ k \in 1..Len(run.calls)
  /\ run.calls[k].state = "fulfilled"
  /\ run.calls[k].timer = "armed"
  /\ runs' = [runs EXCEPT ![r].calls[k].timer = "fired"]
  /\ UNCHANGED <<settings, objs, callStatuses, abortController, notified>>

\* The fulfilled result whose status is success, first in batch order
\* (lines 97-98); NoRef when there is none.
RECURSIVE firstSuccessOf(_, _, _)
firstSuccessOf(batch, calls, heap) ==
  IF batch = <<>> THEN NoRef
  ELSE IF /\ calls[Head(batch)].state = "fulfilled"
          /\ heap[calls[Head(batch)].ref].status = "success"
    THEN calls[Head(batch)].ref
    ELSE firstSuccessOf(Tail(batch), calls, heap)

\* The batch awaited with Promise.race: the first call to settle resolves it.
batchSettled_FirstToSettle(run) ==
  \E j \in 1..Len(run.batches[run.bi]) :
    run.calls[run.batches[run.bi][j]].state \in {"fulfilled", "rejected"}

\* allSettled resolves once every call of the batch has settled.
batchSettled(run) ==
  \A j \in 1..Len(run.batches[run.bi]) :
    run.calls[run.batches[run.bi][j]].state \in {"fulfilled", "rejected"}

\* Lines 94-107: the batch has settled and is scanned for a success.  What
\* cancelRemainingCalls throws is thrown out of executeSwarm: its promise is
\* rejected.
BatchSettled(r) ==
  LET run == runs[r]
      found == firstSuccessOf(run.batches[run.bi], run.calls, objs)
      first == found # NoRef /\ run.firstSuccess = NoRef
      cancels == first /\ config.stopOnFirstSuccess
      now == [objs |-> objs, map |-> callStatuses, notified |-> notified,
              controller |-> abortController, threw |-> FALSE]
      st == IF cancels THEN cancelRemainingCalls(now) ELSE now
  IN
  /\ ~Busy
  /\ run.pc = "await"
  /\ batchSettled(run)
  /\ runs' = [runs EXCEPT ![r].pc = IF st.threw THEN "threw" ELSE "loop",
                          ![r].bi = run.bi + 1,
                          ![r].firstSuccess = IF first THEN found
                                              ELSE run.firstSuccess]
  /\ objs' = st.objs
  /\ notified' = st.notified
  /\ abortController' = st.controller
  /\ UNCHANGED <<settings, callStatuses>>

\* abort() (lines 229-231), called between two tasks; what the callback
\* throws is thrown to the caller of abort().
Abort ==
  LET st == cancelRemainingCalls(
              [objs |-> objs, map |-> callStatuses, notified |-> notified,
               controller |-> abortController, threw |-> FALSE])
  IN
  /\ ~Busy
  /\ objs' = st.objs
  /\ notified' = st.notified
  /\ abortController' = st.controller
  /\ UNCHANGED <<settings, callStatuses, runs>>

\* ------------------------------------- negotiations outside the orchestrator

\* No negotiation was called from outside the orchestrator.
NoNegotiation ==
  [pc |-> "none", mode |-> "none", providerId |-> UnknownId,
   requestedSlot |-> Bare(0), elapsed |-> FALSE, draw |-> 0,
   result |-> Null, response |-> Null]

\* Provider ids a negotiation is called with.
NegotiationIds == ProviderIds \cup ExtraIds \cup SynthIds \cup {UnknownId}

\* Requested slots a negotiation is called with: 10:00, 11:30, 21:30, 22:00,
\* the next day at 07:30 and at 08:00, and 15:00 and 10:00 written with Z.
NegotiationSlots ==
  {Bare(600), Bare(690), Bare(1290), Bare(1320), Bare(1440 + 450),
   Bare(1440 + 480), Zulu(900), Zulu(600)}

\* Preferred time ranges simulateSwarmCalls is called with.
TimeRanges ==
  {[start |-> Bare(600), end |-> Bare(720)],
   [start |-> Bare(1290), end |-> Bare(1350)],
   [start |-> Zulu(900), end |-> Zulu(960)]}

\* Values Math.random() takes in a negotiation called from outside the
\* orchestrator, in hundredths: those of Draws and the three thresholds.
NegotiationDraws == Draws \cup {50, 70, 90}

\* stripTzSuffix of route.ts
stripTzSuffix(dt) == Bare(dt.t)

\* The orchestrator is not used by these steps.
idleOrchestrator ==
  <<config, objs, callStatuses, abortController, runs, onStatusUpdate,
    notified, timeZone, ranking, outside>>

\* handleProviderCall (initiate_provider_call) to its await: the negotiation
\* is called and awaited as it is; no timer is armed.
HandleProviderCall ==
  /\ negotiation.pc = "none"
  /\ \E providerId \in NegotiationIds, slot \in NegotiationSlots :
       negotiation' = [NoNegotiation EXCEPT !.pc = "awaiting",
                                            !.mode = "single",
                                            !.providerId = providerId,
                                            !.requestedSlot = slot]
  /\ UNCHANGED idleOrchestrator

\* timeoutMs milliseconds have passed since the negotiation was called.
TimeoutMsPasses ==
  /\ negotiation.pc = "awaiting"
  /\ ~negotiation.elapsed
  /\ negotiation' = [negotiation EXCEPT !.elapsed = TRUE]
  /\ UNCHANGED idleOrchestrator

\* The response handleProviderCall builds from the CallResult.
providerCallResponse(result) ==
  [call_completed |-> TRUE,
   success |-> result.success,
   booked_slot_iso |-> IF result.bookedSlot # NoSlot
                         THEN stripTzSuffix(result.bookedSlot) ELSE NoSlot,
   alternative_slots |-> [n \in 1..Len(result.alternativeSlots) |->
                            stripTzSuffix(result.alternativeSlots[n])],
   receptionist_response |-> result.message,
   call_duration_ms |-> result.waitTime]

\* The awaited negotiation returns and handleProviderCall answers.
NegotiationReturns ==
  /\ negotiation.pc = "awaiting"
  /\ \E draw \in NegotiationDraws :
       LET result == simulateProviderCall(negotiation.providerId,
                                          negotiation.requestedSlot, draw)
       IN negotiation' = [negotiation EXCEPT
                            !.pc = "done", !.draw = draw, !.result = result,
                            !.response = providerCallResponse(result)]
  /\ UNCHANGED idleOrchestrator

\* One provider's call of simulateSwarmCalls, run to its CallResult.
SimulateSwarmCall ==
  /\ negotiation.pc = "none"
  /\ \E providerId \in NegotiationIds, range \in TimeRanges,
        draw \in NegotiationDraws :
       negotiation' = [NoNegotiation EXCEPT
                         !.pc = "done", !.mode = "swarm",
                         !.providerId = providerId,
                         !.requestedSlot = range.start, !.draw = draw,
                         !.result = simulateSwarmCall(providerId, range, draw)]
  /\ UNCHANGED idleOrchestrator

\* ------------------------------------------------------------------ ranking

\* A distance is in tenths of a mile and a score in tenths of a point.

\* Longest provider list rankProviders is given.
MaxRankLen == 3

DEFAULT_WEIGHTS ==
  [ratingMultiplier |-> 10, maxDistanceScore |-> 30,
   distanceDecayPerMile |-> 5, slotMatchBonus |-> 20]

\* The weights a caller passes: the default, and one that ignores rating.
WeightSets ==
  {DEFAULT_WEIGHTS,
   [ratingMultiplier |-> 0, maxDistanceScore |-> 30,
    distanceDecayPerMile |-> 5, slotMatchBonus |-> 20]}

\* Providers handed to rankProviders: a 5.0 at the door with two slots, two
\* that differ only in their slots (4.2, 2 miles), a 3.5 at 8 miles, and a
\* 4.8 whose slot ends in Z.
RankCatalog ==
  {[id |-> 1, rating |-> 50, distanceMiles |-> 0,
    availableSlots |-> <<Bare(600), Bare(660)>>],
   [id |-> 2, rating |-> 42, distanceMiles |-> 20,
    availableSlots |-> <<Bare(720), Bare(540), Bare(600)>>],
   [id |-> 3, rating |-> 42, distanceMiles |-> 20,
    availableSlots |-> <<Bare(600)>>],
   [id |-> 4, rating |-> 35, distanceMiles |-> 80,
    availableSlots |-> <<Bare(780)>>],
   [id |-> 5, rating |-> 48, distanceMiles |-> 10,
    availableSlots |-> <<Zulu(900)>>]}

\* The lists of distinct providers of the catalog, the empty one included.
RankLists ==
  UNION {{ps \in [1..n -> RankCatalog] :
            \A a, b \in 1..n : ps[a].id = ps[b].id => a = b} : n \in 0..MaxRankLen}

\* The intents of a search: 10:00 to 12:00 written without a zone, and the
\* hour from 15:00Z that toISOString gives (booking/route.ts lines 28-29).
Intents ==
  {[preferredTimeRange |-> [start |-> Bare(600), end |-> Bare(720)],
    status |-> "searching"],
   [preferredTimeRange |-> [start |-> Zulu(900), end |-> Zulu(960)],
    status |-> "searching"]}

NoRanking ==
  [pc |-> "none", providers |-> <<>>, intent |-> Null, weights |-> Null,
   ranked |-> <<>>, again |-> <<>>]

Max(a, b) == IF a >= b THEN a ELSE b

\* The distance score without its floor of 0.
distanceScore_Unclamped(provider, weights) ==
  weights.maxDistanceScore * 10
    - provider.distanceMiles * weights.distanceDecayPerMile

\* Lines 51-54.
distanceScore(provider, weights) ==
  Max(0, weights.maxDistanceScore * 10
           - provider.distanceMiles * weights.distanceDecayPerMile)

\* The window test with the end of the range left out.
inWindow_EndExclusive(slot, range) ==
  getTime(slot) >= getTime(range.start) /\ getTime(slot) < getTime(range.end)

\* The callback of the filter of lines 58-63.
inWindow(slot, range) ==
  getTime(slot) >= getTime(range.start) /\ getTime(slot) <= getTime(range.end)

scoreProvider(provider, intent, weights) ==
  LET Matches(slot) == inWindow(slot, intent.preferredTimeRange)
      matchingSlots == Filter(provider.availableSlots, Matches)
      score == provider.rating * weights.ratingMultiplier
                 + distanceScore(provider, weights)
                 + (IF Len(matchingSlots) > 0
                      THEN weights.slotMatchBonus * 10 ELSE 0)
  IN [id |-> provider.id, rating |-> provider.rating,
      distanceMiles |-> provider.distanceMiles,
      availableSlots |-> provider.availableSlots,
      finalScore |-> score, matchingSlots |-> matchingSlots]

\* The comparator with its operands exchanged.
compareScores_Ascending(a, b) == a.finalScore - b.finalScore

\* (a, b) => b.finalScore - a.finalScore
compareScores(a, b) == b.finalScore - a.finalScore

\* Array.prototype.sort with compareScores; it is stable: x goes after every
\* element that does not compare greater than it.
RECURSIVE InsertRanked(_, _)
InsertRanked(x, sorted) ==
  IF sorted = <<>> THEN <<x>>
  ELSE IF compareScores(Head(sorted), x) <= 0
    THEN <<Head(sorted)>> \o InsertRanked(x, Tail(sorted))
    ELSE <<x>> \o sorted

RECURSIVE SortRanked(_)
SortRanked(seq) ==
  IF seq = <<>> THEN <<>>
  ELSE InsertRanked(seq[Len(seq)], SortRanked(SubSeq(seq, 1, Len(seq) - 1)))

\* rankProviders sorting the array it was given before mapping it.
rankProviders_SortsInput(providers, intent, weights) ==
  LET scored == SortRanked([n \in 1..Len(providers) |->
                              scoreProvider(providers[n], intent, weights)])
  IN [providers |-> [n \in 1..Len(scored) |->
                       [id |-> scored[n].id, rating |-> scored[n].rating,
                        distanceMiles |-> scored[n].distanceMiles,
                        availableSlots |-> scored[n].availableSlots]],
      result |-> scored]

\* rankProviders: map builds a new array of new objects and sort orders that
\* array in place; providers is the caller's array once the call is over and
\* result the array returned.
rankProviders(providers, intent, weights) ==
  [providers |-> providers,
   result |-> SortRanked([n \in 1..Len(providers) |->
                            scoreProvider(providers[n], intent, weights)])]

\* A first call of rankProviders.
RankProviders ==
  /\ ranking.pc = "given"
  /\ LET call == rankProviders(ranking.providers, ranking.intent,
                               ranking.weights)
     IN ranking' = [ranking EXCEPT !.pc = "ranked",
                                   !.providers = call.providers,
                                   !.ranked = call.result]
  /\ UNCHANGED <<config, objs, callStatuses, abortController, runs,
                 onStatusUpdate, notified, timeZone, negotiation, outside>>

\* A second call with the same arguments.
RankAgain ==
  /\ ranking.pc = "ranked"
  /\ LET call == rankProviders(ranking.providers, ranking.intent,
                               ranking.weights)
     IN ranking' = [ranking EXCEPT !.pc = "again",
                                   !.providers = call.providers,
                                   !.again = call.result]
  /\ UNCHANGED <<config, objs, callStatuses, abortController, runs,
                 onStatusUpdate, notified, timeZone, negotiation, outside>>

\* ------------------------------------------------------ simulateSwarmCalls

\* Longest list of provider ids simulateSwarmCalls is given.
MaxSwarmLen == 3

\* Ids simulateSwarmCalls is given: those of the directory and an unknown one.
SwarmIds == ProviderIds \cup {UnknownId}

\* Lists of provider ids, an id any number of times.
SwarmLists == UNION {[1..n -> SwarmIds] : n \in 0..MaxSwarmLen}

\* Preferred time ranges: from 10:00 and from 11:30, to 12:00.
SwarmRanges ==
  {[start |-> Bare(600), end |-> Bare(720)],
   [start |-> Bare(690), end |-> Bare(720)]}

\* let bestMatch: CallResult | null = null
NoMatch == 0

\* simulateSwarmCalls was not called.
NoSwarm ==
  [pc |-> "none", providerIds |-> <<>>,
   preferredTimeRange |-> [start |-> Bare(0), end |-> Bare(0)],
   calls |-> <<>>, first |-> 0, out |-> Null]

\* providerIds.map(async ...) (lines 239-269): one promise per element of
\* the array, each waiting for its delay; times counts the runs of the
\* callback's body past the delay.
callPromises(providerIds) ==
  [k \in 1..Len(providerIds) |-> [state |-> "delayed", times |-> 0, result |-> Null]]

\* The results in the order the calls were started last.
promiseAll_Reversed(calls) ==
  [k \in 1..Len(calls) |-> calls[Len(calls) + 1 - k].result]

\* await Promise.all(callPromises): the values of the promises in the order
\* of the array.
promiseAll(calls) == [k \in 1..Len(calls) |-> calls[k].result]

\* The callback of reduce with a later result kept at equal time and rating.
better_LaterOnTies(best, current, results) ==
  LET bestProvider == getProvider(results[best].providerId)
      currentProvider == getProvider(results[current].providerId)
      bestTime == getTime(results[best].bookedSlot)
      currentTime == getTime(results[current].bookedSlot)
  IN IF bestProvider = Null \/ currentProvider = Null THEN best
     ELSE IF currentTime < bestTime THEN current
     ELSE IF currentTime = bestTime /\ currentProvider.rating >= bestProvider.rating
       THEN current
     ELSE best

\* The callback of reduce (lines 279-291) on positions of results.
better(best, current, results) ==
  LET bestProvider == getProvider(results[best].providerId)
      currentProvider == getProvider(results[current].providerId)
      bestTime == getTime(results[best].bookedSlot)
      currentTime == getTime(results[current].bookedSlot)
  IN IF bestProvider = Null \/ currentProvider = Null THEN best
     ELSE IF currentTime < bestTime THEN current
     ELSE IF currentTime = bestTime /\ currentProvider.rating > bestProvider.rating
       THEN current
     ELSE best

\* Array.prototype.reduce without an initial value: from the first element.
RECURSIVE reduce(_, _, _)
reduce(best, rest, results) ==
  IF rest = <<>> THEN best
  ELSE reduce(better(best, Head(rest), results), Tail(rest), results)

\* Lines 274-292: the position in results of the best successful result.
bestMatchOf(results) ==
  LET IsSuccess(k) == results[k].success
      successfulResults == SelectSeq([k \in 1..Len(results) |-> k], IsSuccess)
  IN IF Len(successfulResults) > 0
       THEN reduce(Head(successfulResults), Tail(successfulResults), results)
       ELSE NoMatch

\* What handleSwarmCalls answers (route.ts lines 580-605).
swarmResponse(provider_ids, results, bestMatch) ==
  LET IsSuccess(r) == r.success
      IsFailure(r) == ~r.success
  IN [swarm_completed |-> TRUE,
      total_calls |-> Len(provider_ids),
      successful_bookings |-> Len(SelectSeq(results, IsSuccess)),
      failed_or_unavailable |-> Len(SelectSeq(results, IsFailure)),
      results |-> [k \in 1..Len(results) |->
                     [provider_id |-> results[k].providerId,
                      success |-> results[k].success,
                      booked_slot_iso |->
                        IF results[k].bookedSlot # NoSlot
                          THEN stripTzSuffix(results[k].bookedSlot) ELSE NoSlot,
                      message |-> results[k].message]],
      best_match |-> IF bestMatch # NoMatch
                       THEN [provider_id |-> results[bestMatch].providerId,
                             booked_slot_iso |->
                               stripTzSuffix(results[bestMatch].bookedSlot)]
                       ELSE Null]

\* Only simulateSwarmCalls moves.
idleButSwarm ==
  <<config, objs, callStatuses, abortController, runs, onStatusUpdate,
    notified, timeZone, negotiation, ranking, search, component, webhook>>

\* handleSwarmCalls calls simulateSwarmCalls, which runs to its await: map
\* has called the callback once for every element, and each waits.
HandleSwarmCalls ==
  /\ swarm.pc = "none"
  /\ \E providerIds \in SwarmLists, range \in SwarmRanges :
       swarm' = [NoSwarm EXCEPT !.pc = "awaiting",
                                !.providerIds = providerIds,
                                !.preferredTimeRange = range,
                                !.calls = callPromises(providerIds)]
  /\ UNCHANGED idleButSwarm

\* The timer of delay(index * 200) of the k-th callback fires, after those
\* of the callbacks before it: an id the lookup does not know is answered at
\* once, any other is called.
DelayPasses(k) ==
  /\ swarm.pc = "awaiting"
  /\ k \in 1..Len(swarm.calls)
  /\ swarm.calls[k].state = "delayed"
  /\ \A j \in 1..(k - 1) : swarm.calls[j].state # "delayed"
  /\ LET providerId == swarm.providerIds[k] IN
     IF getProvider(providerId) = Null
       THEN swarm' = [swarm EXCEPT
                        !.calls[k] = [state |-> "done", times |-> @.times + 1,
                                      result |-> simulateSwarmCall(
                                        providerId, swarm.preferredTimeRange, 0)],
                        !.first = IF @ = 0 THEN k ELSE @]
       ELSE swarm' = [swarm EXCEPT
                        !.calls[k] = [@ EXCEPT !.state = "calling",
                                               !.times = @ + 1]]
  /\ UNCHANGED idleButSwarm

\* The negotiation of the k-th callback returns its CallResult, whatever the
\* others have done.
SwarmCallReturns(k) ==
  /\ swarm.pc = "awaiting"
  /\ k \in 1..Len(swarm.calls)
  /\ swarm.calls[k].state = "calling"
  /\ \E draw \in Draws :
       swarm' = [swarm EXCEPT
                   !.calls[k] = [@ EXCEPT !.state = "done",
                                          !.result = simulateSwarmCall(
                                            swarm.providerIds[k],
                                            swarm.preferredTimeRange, draw)],
                   !.first = IF @ = 0 THEN k ELSE @]
  /\ UNCHANGED idleButSwarm

\* Every promise is fulfilled: Promise.all resolves, bestMatch is chosen
\* and handleSwarmCalls answers.
SwarmReturns ==
  /\ swarm.pc = "awaiting"
  /\ \A k \in 1..Len(swarm.calls) : swarm.calls[k].state = "done"
  /\ LET results == promiseAll(swarm.calls)
         bestMatch == bestMatchOf(results)
     IN swarm' = [swarm EXCEPT
                    !.pc = "done",
                    !.out = [results |-> results, bestMatch |-> bestMatch,
                             response |-> swarmResponse(swarm.providerIds,
                                                        results, bestMatch)]]
  /\ UNCHANGED idleButSwarm

\* -------------------------------------------------------- search_providers

\* Most search_providers calls a process answers.
MaxSearches == 2

\* Latest value of Date.now(), in milliseconds after the first.
MaxClock == 2

\* A parameter the agent left out (undefined or ''), and a time left out.
Omitted == ""

NoTime == [h |-> -1, m |-> -1]

\* The date new Date().toISOString().split('T')[0] gives.
Today == "2026-02-07"

\* Dates follow one another.
nextDate(date) ==
  CASE date = "2026-02-07" -> "2026-02-08"
    [] date = "2026-02-09" -> "2026-02-10"
    [] date = "2026-02-20" -> "2026-02-21"
    [] OTHER -> "2026-02-11"

\* Parameters of a search_providers call: any of the four left out, the
\* others with the values of one of two requests; times are HH:MM.
SearchRequests ==
  {[service_type |-> "dentist", preferred_date |-> "2026-02-09",
    preferred_time |-> [h |-> 9, m |-> 0], location |-> "Cambridge"],
   [service_type |-> "hairdresser", preferred_date |-> "2026-02-20",
    preferred_time |-> [h |-> 23, m |-> 30], location |-> "Somerville"]}

SearchFields == {"service_type", "preferred_date", "preferred_time", "location"}

SearchParams ==
  {[field \in SearchFields |->
      IF field \in given THEN request[field]
      ELSE IF field = "preferred_time" THEN NoTime ELSE Omitted] :
     given \in SUBSET SearchFields, request \in SearchRequests}

\* No search was made: bookingSessions is empty (line 98) and no request
\* is waiting for Google Places.
NoSearch ==
  [mapsApiKey |-> FALSE, now |-> 0, sessions |-> <<>>, pending |-> <<>>,
   started |-> 0, last |-> Null]

\* `${preferred_date}T${preferred_time}:00`
startStr(preferred_date, preferred_time) ==
  [date |-> preferred_date, h |-> preferred_time.h, m |-> preferred_time.m, s |-> 0]

\* addHoursLocal (lines 31-37): the hours added in UTC arithmetic.
addHoursLocal(localDT, hours) ==
  IF localDT.h + hours >= 24
    THEN [localDT EXCEPT !.date = nextDate(@), !.h = localDT.h + hours - 24]
    ELSE [localDT EXCEPT !.h = @ + hours]

\* start.split('T')[0]
datePart(start) == start.date

\* start.split('T')[1].substring(0, 5)
timePart(start) == [h |-> start.h, m |-> start.m]

\* Array.from(bookingSessions.values()).pop()
lastSessionOf(sessions) ==
  IF sessions = <<>> THEN Null ELSE MapValues(sessions)[Len(sessions)]

\* Lines 184-208: the parameters, a missing one taken from the last session
\* or, without one, from the default, and the intent built of them.
intentOf(params, lastSession) ==
  LET service_type ==
        IF params.service_type # Omitted THEN params.service_type
        ELSE IF lastSession # Null THEN lastSession.intent.serviceType
        ELSE "general service"
      preferred_date ==
        IF params.preferred_date # Omitted THEN params.preferred_date
        ELSE IF lastSession # Null
          THEN datePart(lastSession.intent.preferredTimeRange.start)
        ELSE Today
      preferred_time ==
        IF params.preferred_time # NoTime THEN params.preferred_time
        ELSE IF lastSession # Null
          THEN timePart(lastSession.intent.preferredTimeRange.start)
        ELSE [h |-> 14, m |-> 0]
      location ==
        IF params.location # Omitted THEN params.location
        ELSE IF lastSession # Null THEN lastSession.intent.userLocation
        ELSE "Boston"
      start == startStr(preferred_date, preferred_time)
  IN [userId |-> "voice_user", serviceType |-> service_type,
      userLocation |-> location,
      preferredTimeRange |-> [start |-> start, end |-> addHoursLocal(start, 2)],
      maxDistanceMiles |-> 10, status |-> "searching"]

\* `session_${Date.now()}`
sessionId(now) == now

\* Lines 340-345: the session is set under the id of this millisecond; the
\* ranked providers kept with it are read by no search.
storeSession(sessions, now, intent) ==
  MapSet(sessions, sessionId(now), [intent |-> intent, currentCallIndex |-> 0])

\* Only the searches move.
idleButSearch ==
  <<config, objs, callStatuses, abortController, runs, onStatusUpdate,
    notified, timeZone, negotiation, ranking, swarm, component, webhook>>

\* A millisecond passes.
ClockTicks ==
  /\ search.now < MaxClock
  /\ search' = [search EXCEPT !.now = @ + 1]
  /\ UNCHANGED idleButSearch

\* handleSearchProviders: without GOOGLE_MAPS_API_KEY it runs to its end in
\* one task; with it, it runs to the await of fetch.
HandleSearchProviders ==
  /\ search.started < MaxSearches
  /\ \E params \in SearchParams :
       LET lastSession == lastSessionOf(search.sessions)
           intent == intentOf(params, lastSession)
           call == [params |-> params, lastSession |-> lastSession,
                    intent |-> intent]
       IN IF search.mapsApiKey
            THEN search' = [search EXCEPT !.started = @ + 1,
                                          !.pending = Append(@, call),
                                          !.last = call]
            ELSE search' = [search EXCEPT
                              !.started = @ + 1,
                              !.sessions = storeSession(@, search.now, intent),
                              !.last = call]
  /\ UNCHANGED idleButSearch

\* Google Places answers the n-th waiting search, or its 4 seconds pass:
\* the handler runs to its end.
PlacesAnswers(n) ==
  /\ n \in 1..Len(search.pending)
  /\ search' = [search EXCEPT
                  !.sessions = storeSession(@, search.now, search.pending[n].intent),
                  !.pending = SubSeq(@, 1, n - 1) \o SubSeq(@, n + 1, Len(@)),
                  !.last = search.pending[n]]
  /\ UNCHANGED idleButSearch

\* ------------------------------------------------------------ BookingStatus

\* Most changes of its props a mounted BookingStatus sees.
MaxChanges == 2

\* What serviceType is: left out, or one of two services.
ServiceTypes == {"provider", "dentist", "hairdresser"}

NoTimer == [armed |-> FALSE]

\* No BookingStatus is mounted.
NoComponent ==
  [pc |-> "none", serviceType |-> "provider", onComplete |-> 0,
   isSynced |-> FALSE, steps |-> <<>>, currentStepIndex |-> 0,
   hasFinished |-> FALSE, processingRef |-> FALSE, timer |-> NoTimer,
   run |-> 0, changes |-> 0, completed |-> <<>>]

\* The three steps of lines 36-40, named after the service type.
pendingSteps(type) ==
  [k \in 1..3 |-> [providerName |-> <<type, k>>, status |-> "pending"]]

\* The first effect (lines 33-50) of a visible component, with the state
\* updates it asks for applied.
initializeSteps(c) ==
  [c EXCEPT !.steps = pendingSteps(c.serviceType),
            !.currentStepIndex = 0,
            !.hasFinished = FALSE,
            !.processingRef = FALSE,
            !.run = @ + 1]

\* The cleanup of the second effect (lines 88-90): clearTimeout(timer).
clearTimer(c) == [c EXCEPT !.timer = NoTimer]

\* The body of the second effect (lines 54-86) of a visible component, with
\* the state update it asks for applied; the timer's callback closes over
\* currentStepIndex, steps and onComplete of this render.
callingEffect(c) ==
  IF c.hasFinished \/ c.currentStepIndex >= 3 \/ Len(c.steps) = 0 THEN c
  ELSE IF c.processingRef THEN c
  ELSE [c EXCEPT !.processingRef = TRUE,
                 !.steps[c.currentStepIndex + 1].status = "calling",
                 !.timer = [armed |-> TRUE, index |-> c.currentStepIndex,
                            steps |-> c.steps, onComplete |-> c.onComplete]]

\* The second effect run again after a render in which one of its
\* dependencies changed: its cleanup, then its body.
runCallingEffect(c) == callingEffect(clearTimer(c))

\* Only the component moves.
idleButComponent ==
  <<config, objs, callStatuses, abortController, runs, onStatusUpdate,
    notified, timeZone, negotiation, ranking, swarm, search, webhook>>

\* The component is mounted visible: the first effect sets the steps, and
\* after the render that follows the second effect starts the first call.
Mount ==
  /\ component.pc = "none"
  /\ \E type \in ServiceTypes :
       component' =
         runCallingEffect(initializeSteps(
           [NoComponent EXCEPT !.pc = "mounted", !.serviceType = type]))
  /\ UNCHANGED idleButComponent

\* The timer's callback (lines 65-86) and the render that follows it: the
\* third attempt succeeds, the others as Math.random() has it.
TimerFires ==
  /\ component.pc = "mounted"
  /\ component.timer.armed
  /\ \E isSuccess \in (IF component.timer.index = 2 THEN {TRUE} ELSE BOOLEAN) :
       LET index == component.timer.index
           settled == [component EXCEPT
                         !.steps = [k \in 1..Len(@) |->
                                      IF k = index + 1
                                        THEN [@[k] EXCEPT !.status =
                                                IF isSuccess THEN "success"
                                                ELSE "failed"]
                                        ELSE @[k]],
                         !.processingRef = FALSE,
                         !.timer = NoTimer]
           after == IF isSuccess
                      THEN [settled EXCEPT
                              !.hasFinished = TRUE,
                              !.completed = Append(@,
                                [providerName |->
                                   component.timer.steps[index + 1].providerName,
                                 onComplete |-> component.timer.onComplete,
                                 run |-> component.run])]
                      ELSE [settled EXCEPT !.currentStepIndex = @ + 1]
       IN component' =
            IF after.hasFinished # component.hasFinished
               \/ after.currentStepIndex # component.currentStepIndex
              THEN runCallingEffect(after)
              ELSE after
  /\ UNCHANGED idleButComponent

\* The parent renders again with another onComplete function: a dependency
\* of the second effect changed.
NewOnComplete ==
  /\ component.pc = "mounted"
  /\ component.changes < MaxChanges
  /\ component' = runCallingEffect(
                    [component EXCEPT !.onComplete = @ + 1, !.changes = @ + 1])
  /\ UNCHANGED idleButComponent

\* The parent renders again with isSynced changed: no dependency of an
\* effect changed.
Rerender ==
  /\ component.pc = "mounted"
  /\ component.changes < MaxChanges
  /\ component' = [component EXCEPT !.isSynced = ~@, !.changes = @ + 1]
  /\ UNCHANGED idleButComponent

\* The parent renders again with another serviceType: the first effect runs
\* and, after the render that follows, the second if currentStepIndex or
\* hasFinished changed.
NewServiceType ==
  /\ component.pc = "mounted"
  /\ component.changes < MaxChanges
  /\ \E type \in ServiceTypes \ {component.serviceType} :
       LET reset == initializeSteps(
                      [component EXCEPT !.serviceType = type, !.changes = @ + 1])
       IN component' =
            IF reset.hasFinished # component.hasFinished
               \/ reset.currentStepIndex # component.currentStepIndex
              THEN runCallingEffect(reset)
              ELSE reset
  /\ UNCHANGED idleButComponent

\* ------------------------------------------------------------ POST webhook

\* Most requests a process answers.
MaxRequests == 2

\* A field the body does not have (undefined).
Absent == "undefined"

\* The tools POST knows, in the order of its switch.
Handlers ==
  {"search_providers", "check_calendar_availability", "initiate_provider_call",
   "confirm_booking", "swarm_call_providers"}

\* The handlers that read a property of parameters before anything else.
ReadsParameters ==
  {"search_providers", "initiate_provider_call", "confirm_booking",
   "swarm_call_providers"}

\* Values of tool_name: none, the empty string, the known tools and another.
ToolNames == {Absent, ""} \cup Handlers \cup {"warmup", "cancel_booking"}

\* Request bodies: text that is no JSON, the JSON null, and objects.
Bodies ==
  {[json |-> kind, tool_name |-> Absent, tool_call_id |-> Absent,
    parameters |-> FALSE] : kind \in {"unparsable", "null"}}
  \cup [json : {"object"}, tool_name : ToolNames,
        tool_call_id : {Absent, "call_1"}, parameters : BOOLEAN]

\* No request has come in.
NoWebhook == [served |-> <<>>]

\* !tool_name
falsy(value) == value = Absent \/ value = ""

\* The catch of lines 158-164.
internalError(handlers) ==
  [handlers |-> handlers,
   response |-> [status |-> 500, error |-> "Internal server error",
                 tool_call_id |-> Absent, result |-> Absent]]

\* The switch of lines 118-149 and the response of lines 152-155, when the
\* handler it calls throws or returns: a handler that reads a property of
\* parameters throws when the body has none.
dispatch(body, throws) ==
  IF body.tool_name \in Handlers
    THEN IF throws \/ (body.tool_name \in ReadsParameters /\ ~body.parameters)
           THEN internalError(<<body.tool_name>>)
           ELSE [handlers |-> <<body.tool_name>>,
                 response |-> [status |-> 200, error |-> Absent,
                               tool_call_id |-> body.tool_call_id,
                               result |-> [of |-> body.tool_name]]]
  ELSE IF body.tool_name = "warmup"
    THEN [handlers |-> <<>>,
          response |-> [status |-> 200, error |-> Absent,
                        tool_call_id |-> body.tool_call_id,
                        result |-> [status |-> "ok"]]]
  ELSE [handlers |-> <<>>,
        response |-> [status |-> 200, error |-> Absent,
                      tool_call_id |-> body.tool_call_id,
                      result |-> [error |-> <<"Unknown tool", body.tool_name>>]]]

\* POST without the test of tool_name.
POST_NoNameCheck(body, throws) ==
  IF body.json = "unparsable" \/ body.json = "null" THEN internalError(<<>>)
  ELSE dispatch(body, throws)

\* POST (lines 106-165) for a request with this body: the handlers it
\* called and its response.  req.json() throws on text that is no JSON, and
\* the destructuring of line 112 throws on null.
POST(body, throws) ==
  IF body.json = "unparsable" \/ body.json = "null" THEN internalError(<<>>)
  ELSE IF falsy(body.tool_name)
    THEN [handlers |-> <<>>,
          response |-> [status |-> 400, error |-> "Missing tool_name",
                        tool_call_id |-> Absent, result |-> Absent]]
  ELSE dispatch(body, throws)

\* Only the webhook moves.
idleButWebhook ==
  <<config, objs, callStatuses, abortController, runs, onStatusUpdate,
    notified, timeZone, negotiation, ranking, swarm, search, component>>

\* A request comes in and is answered.
Request ==
  /\ Len(webhook.served) < MaxRequests
  /\ \E body \in Bodies, throws \in BOOLEAN :
       LET answered == POST(body, throws)
       IN webhook' = [webhook EXCEPT
                        !.served = Append(@, [body |-> body,
                                              handlers |-> answered.handlers,
                                              response |-> answered.response])]
  /\ UNCHANGED idleButWebhook

\* ----------------------------------------------------------- specifications

Configs ==
  [maxConcurrentCalls : 0..MaxConcurrent, stopOnFirstSuccess : BOOLEAN]

\* The state a constructor and setStatusCallback leave (lines 45-59), for
\* configurations of configs, callbacks of callbacks and a process in one
\* of zones.
InitWith(configs, callbacks, zones) ==
  /\ config \in configs
  /\ onStatusUpdate \in callbacks
  /\ timeZone \in zones
  /\ objs = <<>>
  /\ notified = <<>>
  /\ callStatuses = <<>>
  /\ abortController = "null"
  /\ runs = [r \in RunIds |-> IdleRun]
  /\ negotiation = NoNegotiation
  /\ ranking = NoRanking
  /\ swarm = NoSwarm
  /\ search = NoSearch
  /\ component = NoComponent
  /\ webhook = NoWebhook

\* An orchestrator with a callback that records and returns, in New York.
Init == InitWith(Configs, {Logging}, {-300})

Progress(r) ==
  \/ CreateBatchesStep(r)
  \/ LaunchBatch(r)
  \/ Return(r)
  \/ BatchSettled(r)
  \/ \E k \in 1..NumProviders : CallSettles(r, k) \/ CallTimesOut(r, k)

\* One orchestrator whose executeSwarm is called again only after the
\* previous invocation has returned; abort() is called at any time.
Next == Execute(1) \/ Progress(1) \/ Abort

Spec == Init /\ [][Next]_vars

\* The event loop runs every task that is ready, every negotiation settles
\* or its timer fires; nothing obliges a caller to call executeSwarm or abort.
FairSpec == Spec /\ WF_vars(Progress(1))

\* The same orchestrator, with the timers and negotiations of short provider
\* lists followed after their race is decided.
RaceLists == {ps \in ProviderLists : Len(ps) <= RaceLen}

ExecuteRace(r) == ExecuteWith(r, RaceLists, RequestedSlots)

Late(r) == \E k \in 1..NumProviders : LateResult(r, k) \/ LateTimer(r, k)

NextRace == ExecuteRace(1) \/ Progress(1) \/ Late(1) \/ Abort

SpecRace == Init /\ [][NextRace]_vars

\* Two invocations of executeSwarm on one orchestrator, each called once,
\* that may overlap.
OverlapLists(r) ==
  {ps \in ProviderLists : Len(ps) <= IF r = 1 THEN RaceLen ELSE OverlapLen}

ExecuteOnce(r) == runs[r].pc = "idle" /\ ExecuteWith(r, OverlapLists(r), {Bare(600)})

NextOverlap == \E r \in RunIds : ExecuteOnce(r) \/ Progress(r)

SpecOverlap == Init /\ [][NextOverlap]_vars

\* One invocation on which abort() is never called, its callback counting
\* its calls.
InitOrder == InitWith(Configs, {Counting}, {-300})

ExecuteOrder(r) ==
  runs[r].pc = "idle" /\ ExecuteWith(r, ProviderLists, RequestedSlots)

NextOrder == ExecuteOrder(1) \/ Progress(1)

SpecOrder == InitOrder /\ [][NextOrder]_vars

\* An orchestrator whose callback may throw, over short lists that may hold
\* a provider the lookup does not know, and whose negotiations may fail.
ThrowingCallbacks ==
  {[defined |-> TRUE, throwsOn |-> on] :
     on \in {{"calling"}, {"cancelled"}, {"success", "failed", "timeout"}}}

CallbackLists ==
  UNION {{ps \in [1..n -> ProviderIds \cup {UnknownId}] :
            \A a, b \in 1..n : a # b => ps[a] # ps[b]} : n \in 0..RaceLen}

InitCallback == InitWith(Configs, ThrowingCallbacks \cup {Logging}, {-300})

ExecuteCallback(r) ==
  runs[r].pc = "idle" /\ ExecuteWith(r, CallbackLists, RequestedSlots)

Fails(r) == \E k \in 1..NumProviders : CallFails(r, k)

NextCallback == ExecuteCallback(1) \/ Progress(1) \/ Fails(1) \/ Abort

SpecCallback == InitCallback /\ [][NextCallback]_vars

\* One run over three providers rated 4.8, 4.2 and 3.5, in that order, with
\* maxConcurrentCalls = 5 and stopOnFirstSuccess = true.
ScenarioConfig == [maxConcurrentCalls |-> 5, stopOnFirstSuccess |-> TRUE]

ScenarioList == <<1, 2, BusyEarly>>

InitScenario == InitWith({ScenarioConfig}, {Logging}, {-300})

ExecuteScenario(r) ==
  runs[r].pc = "idle" /\ ExecuteWith(r, {ScenarioList}, RequestedSlots)

NextScenario == ExecuteScenario(1) \/ Progress(1) \/ Abort

SpecScenario == InitScenario /\ [][NextScenario]_vars

\* Negotiations called from outside the orchestrator, one per behaviour, in
\* a process in New York or in UTC.
InitNegotiate == InitWith({ScenarioConfig}, {Logging}, TimeZones)

NextNegotiate ==
  \/ HandleProviderCall
  \/ TimeoutMsPasses
  \/ NegotiationReturns
  \/ SimulateSwarmCall

SpecNegotiate == InitNegotiate /\ [][NextNegotiate]_vars

\* Configurations that say whether failed calls are to be retried.
RetryConfigs ==
  [maxConcurrentCalls : {1, MaxConcurrent}, stopOnFirstSuccess : BOOLEAN,
   retryFailedCalls : BOOLEAN]

InitRetry == InitWith(RetryConfigs, {Logging}, {-300})

SpecRetry == InitRetry /\ [][Next]_vars

\* The arguments of a call of rankProviders, in either zone.
InitRank ==
  /\ config = ScenarioConfig
  /\ onStatusUpdate = Logging
  /\ timeZone \in TimeZones
  /\ objs = <<>>
  /\ notified = <<>>
  /\ callStatuses = <<>>
  /\ abortController = "null"
  /\ runs = [r \in RunIds |-> IdleRun]
  /\ negotiation = NoNegotiation
  /\ swarm = NoSwarm
  /\ search = NoSearch
  /\ component = NoComponent
  /\ webhook = NoWebhook
  /\ \E ps \in RankLists, intent \in Intents, weights \in WeightSets :
       ranking = [NoRanking EXCEPT !.pc = "given", !.providers = ps,
                                   !.intent = intent, !.weights = weights]

NextRank == RankProviders \/ RankAgain

SpecRank == InitRank /\ [][NextRank]_vars

\* Calls of simulateSwarmCalls behind swarm_call_providers, in New York.
InitSwarm == InitWith({ScenarioConfig}, {Logging}, {-300})

NextSwarm ==
  \/ HandleSwarmCalls
  \/ \E k \in 1..MaxSwarmLen : DelayPasses(k) \/ SwarmCallReturns(k)
  \/ SwarmReturns

SpecSwarm == InitSwarm /\ [][NextSwarm]_vars

\* Searches of a process with and without a key for Google Places.
InitSearch ==
  /\ config = ScenarioConfig
  /\ onStatusUpdate = Logging
  /\ timeZone = -300
  /\ objs = <<>>
  /\ notified = <<>>
  /\ callStatuses = <<>>
  /\ abortController = "null"
  /\ runs = [r \in RunIds |-> IdleRun]
  /\ negotiation = NoNegotiation
  /\ ranking = NoRanking
  /\ swarm = NoSwarm
  /\ component = NoComponent
  /\ webhook = NoWebhook
  /\ \E key \in BOOLEAN : search = [NoSearch EXCEPT !.mapsApiKey = key]

NextSearch ==
  \/ ClockTicks
  \/ HandleSearchProviders
  \/ \E n \in 1..MaxSearches : PlacesAnswers(n)

SpecSearch == InitSearch /\ [][NextSearch]_vars

\* A BookingStatus that stays visible while its parent renders it again;
\* a timer that is armed fires.
InitComponent == InitWith({ScenarioConfig}, {Logging}, {-300})

NextComponent ==
  \/ Mount
  \/ TimerFires
  \/ NewOnComplete
  \/ Rerender
  \/ NewServiceType

SpecComponent == InitComponent /\ [][NextComponent]_vars

FairComponent == SpecComponent /\ WF_vars(Mount) /\ WF_vars(TimerFires)

\* Requests to the tool webhook, one after another.
InitWebhook == InitWith({ScenarioConfig}, {Logging}, {-300})

NextWebhook == Request

SpecWebhook == InitWebhook /\ [][NextWebhook]_vars

\* ------------------------------------------------------------------ claims

\* The invocation the one-at-a-time specifications follow.
Run == runs[1]

Returned == Run.pc = "done"

\* The status object of the k-th provider of the invocation.
StatusAt(k) == objs[Ref(1, k)]

Positions == 1..Len(Run.providers)

Range(seq) == {seq[n] : n \in 1..Len(seq)}

\* C1: when executeSwarm has returned, successfulBookings.length +
\* failedCalls.length + cancelledCalls.length equals totalProviders.
C1_PartitionCountsAll ==
  Returned =>
    Len(Run.out.successfulBookings) + Len(Run.out.failedCalls)
      + Len(Run.out.cancelledCalls) = Run.out.totalProviders

\* A returned result with a success, a failure and a cancelled call.
C1_Witness ==
  /\ Returned
  /\ Run.out.totalProviders = 3
  /\ Len(Run.out.successfulBookings) = 1
  /\ Len(Run.out.failedCalls) = 1
  /\ Len(Run.out.cancelledCalls) = 1

\* C2: every invocation of executeSwarm eventually returns a SwarmResult,
\* whatever the provider list and the configuration.
C2_AlwaysReturns == (Run.pc # "idle") ~> Returned

\* The batch (its index in batches) the k-th provider was put in; 0 before
\* createBatches has placed it.
BatchOf(k) ==
  IF \E b \in 1..Len(Run.batches) : k \in Range(Run.batches[b])
    THEN CHOOSE b \in 1..Len(Run.batches) : k \in Range(Run.batches[b])
    ELSE 0

Settled == {"success", "failed", "timeout"}

\* The batches are made and the loop over them has begun.
Batched == Run.pc \in {"loop", "await", "done"}

\* A success among the calls of batch b.
SuccessIn(b) ==
  \E k \in Range(Run.batches[b]) : StatusAt(k).status = "success"

\* The step in which allSettled resolves and the batch is scanned.
ScanStep == Run.pc = "await" /\ Run'.pc = "loop"

\* C3: after a batch settles, if stopOnFirstSuccess is enabled and a call of
\* that batch succeeded, every status still pending becomes cancelled and no
\* provider of a later batch ever enters calling; if no call of the batch
\* succeeded (and nobody aborted), the next batch is processed.
C3_EarlyStopAtBatchBoundary ==
  [][/\ (ScanStep /\ config.stopOnFirstSuccess /\ SuccessIn(Run.bi)) =>
          /\ \A k \in Positions : StatusAt(k)'.status # "pending"
          /\ \A k \in Positions :
               BatchOf(k) > Run.bi => StatusAt(k)'.status = "cancelled"
     /\ (Batched /\ config.stopOnFirstSuccess /\ Run.firstSuccess # NoRef) =>
          \A k \in Positions :
            (Run'.pc # "batching" /\ StatusAt(k)'.status = "calling")
              => StatusAt(k).status = "calling"
     /\ (/\ Run.pc = "loop" /\ Run.bi \in 2..Len(Run.batches)
         /\ ~SuccessIn(Run.bi - 1)
         /\ Run.firstSuccess = NoRef
         /\ abortController # "aborted") =>
          /\ Run'.pc = "await"
          /\ \A k \in Range(Run.batches[Run.bi]) :
               StatusAt(k)'.status = "calling"
    ]_vars

\* An early stop has happened: a success in the first batch, the providers
\* of the later batches cancelled, the result returned.
C3_Witness ==
  /\ Returned
  /\ config.stopOnFirstSuccess
  /\ Run.firstSuccess # NoRef
  /\ Len(Run.batches) >= 2
  /\ \E k \in Positions : BatchOf(k) = 2 /\ StatusAt(k).status = "cancelled"

\* C4: batches are processed one after another: no provider of a batch
\* enters calling, and the early stop is not evaluated, until every call
\* launched in the batches before it has settled.
C4_BatchesInSequence ==
  Batched =>
    /\ \A k \in Positions :
         StatusAt(k).status = "calling" =>
           /\ Run.pc = "await"
           /\ BatchOf(k) = Run.bi
    /\ \A k \in Positions :
         (BatchOf(k) < Run.bi /\ StatusAt(k).status # "cancelled")
           => StatusAt(k).status \in Settled
    /\ \A k \in Positions :
         BatchOf(k) > Run.bi => StatusAt(k).status \in {"pending", "cancelled"}
    /\ Run.firstSuccess # NoRef =>
         \E k \in Positions : /\ BatchOf(k) < Run.bi
                              /\ Run.firstSuccess = Ref(1, k)
                              /\ StatusAt(k).status = "success"

\* The second batch is in flight after the first has settled.
C4_Witness ==
  /\ Run.pc = "await"
  /\ Run.bi = 2
  /\ \E k \in Positions : BatchOf(k) = 2 /\ StatusAt(k).status = "calling"
  /\ \E k \in Positions : BatchOf(k) = 1 /\ StatusAt(k).status = "timeout"

RECURSIVE Concat(_)
Concat(seqs) == IF seqs = <<>> THEN <<>> ELSE Head(seqs) \o Concat(Tail(seqs))

\* C5: the providers are cut into consecutive batches of maxConcurrentCalls
\* in input order (the batches concatenated are the input list, every batch
\* but the last is full), and at most maxConcurrentCalls statuses are in
\* calling in every state.
C5_BatchesBoundConcurrency ==
  /\ Batched =>
       /\ Concat(Run.batches) = [k \in Positions |-> k]
       /\ \A b \in 1..Len(Run.batches) :
            /\ Len(Run.batches[b]) \in 1..config.maxConcurrentCalls
            /\ b < Len(Run.batches) =>
                 Len(Run.batches[b]) = config.maxConcurrentCalls
  /\ Cardinality({ref \in DOMAIN objs : objs[ref].status = "calling"})
       <= config.maxConcurrentCalls

\* A full batch of two is calling while a third provider waits its turn.
C5_Witness ==
  /\ config.maxConcurrentCalls = 2
  /\ Len(Run.providers) = 3
  /\ Cardinality({ref \in DOMAIN objs : objs[ref].status = "calling"}) = 2
  /\ StatusAt(3).status = "pending"

\* A step inside one invocation (not the one that starts it anew).
SameRun == Run.pc # "idle" /\ Run'.pc # "batching"

\* C6: each launched call is decided by a race between its own negotiation
\* and its own timer, armed at that call's launch: if the timer fires first
\* the status becomes timeout and no CallResult is attached, otherwise the
\* status becomes success or failed as the CallResult says and the CallResult
\* is attached; what arrives after the race is decided changes nothing.
C6_RaceDecidesCall ==
  [][SameRun =>
       \A k \in Positions :
         LET task == Run.calls[k]
             after == Run'.calls[k]
             old == StatusAt(k)
             new == StatusAt(k)'
         IN
         /\ (old.status # "calling" /\ new.status = "calling") =>
              /\ after.state = "racing"
              /\ after.neg = "pending"
              /\ after.timer = "armed"
         /\ task.state = "racing" => old.status = "calling" /\ old.result = Null
         /\ (task.state = "racing" /\ after.timer = "fired") =>
              /\ new.status = "timeout"
              /\ new.result = Null
         /\ (task.state = "racing" /\ after.neg = "delivered") =>
              /\ new.result # Null
              /\ new.result.providerId = Run.providers[k]
              /\ new.status = IF new.result.success THEN "success" ELSE "failed"
         /\ (old.status # "timeout" /\ new.status = "timeout") =>
              /\ task.state = "racing"
              /\ task.timer = "armed"
              /\ \A j \in Positions \ {k} : StatusAt(j)' = StatusAt(j)
         /\ task.state = "fulfilled" => new = old
    ]_vars

\* One call timed out and its negotiation's result came in afterwards;
\* another was decided by its result and its timer fired afterwards.
C6_Witness ==
  /\ \E k \in Positions :
       /\ StatusAt(k).status = "timeout"
       /\ Run.calls[k].neg = "delivered"
  /\ \E k \in Positions :
       /\ StatusAt(k).status = "success"
       /\ Run.calls[k].timer = "fired"

\* A step that cancels: a status becomes cancelled or the signal is aborted.
CancelStep ==
  \/ abortController # "aborted" /\ abortController' = "aborted"
  \/ \E k \in Positions :
       StatusAt(k).status # "cancelled" /\ StatusAt(k)'.status = "cancelled"

\* C7: cancellation, by early stop or by abort(), changes only statuses that
\* are pending: a status in calling, success, failed or timeout is never
\* turned into cancelled, a call in flight stays in its race, and the calls
\* returned as successful are those whose negotiation succeeded.
C7_CancelOnlyPending ==
  [][SameRun =>
       /\ \A k \in Positions :
            (StatusAt(k).status # "cancelled"
               /\ StatusAt(k)'.status = "cancelled")
              => StatusAt(k).status = "pending"
       /\ CancelStep =>
            /\ Run'.calls = Run.calls
            /\ \A k \in Positions :
                 StatusAt(k).status # "pending" => StatusAt(k)' = StatusAt(k)
       /\ \A k \in Positions :
            Run.calls[k].state = "racing" => StatusAt(k).status = "calling"
       /\ (~Returned /\ Returned') =>
            Range(Run'.out.successfulBookings) =
              {Ref(1, k) : k \in
                 {j \in Positions : /\ Run.calls[j].neg = "delivered"
                                    /\ StatusAt(j).result # Null
                                    /\ StatusAt(j).result.success}}
    ]_vars

\* abort() has come while a call was in flight: the waiting providers are
\* cancelled, the call is still in its race.
C7_Witness ==
  /\ abortController = "aborted"
  /\ \E k \in Positions : StatusAt(k).status = "cancelled"
  /\ \E k \in Positions :
       Run.calls[k].state = "racing" /\ StatusAt(k).status = "calling"
  /\ \E k \in Positions : StatusAt(k).status = "success"

Succeeded == {k \in Positions : StatusAt(k).status = "success"}

BookedAt(k) == getTime(StatusAt(k).result.bookedSlot)

RatingAt(k) == Directory[Run.providers[k]].rating

\* C8: bestMatch is none iff no status is success; otherwise it is the
\* success with the earliest bookedSlot, among equal slots the one with the
\* higher rating, among equal ratings the one earliest in the input.
C8_BestMatch ==
  Returned =>
    /\ Run.out.bestMatch = NoRef <=> Succeeded = {}
    /\ Succeeded # {} =>
         \E k \in Succeeded :
           /\ Run.out.bestMatch = Ref(1, k)
           /\ \A j \in Succeeded \ {k} :
                \/ BookedAt(k) < BookedAt(j)
                \/ /\ BookedAt(k) = BookedAt(j)
                   /\ \/ RatingAt(k) > RatingAt(j)
                      \/ RatingAt(k) = RatingAt(j) /\ k < j

\* Three successes on one slot: the first provider is rated lower, the
\* second and the third are rated alike, and the second is the best match.
C8_Witness ==
  /\ Returned
  /\ Succeeded = {1, 2, 3}
  /\ BookedAt(1) = BookedAt(2) /\ BookedAt(2) = BookedAt(3)
  /\ RatingAt(1) < RatingAt(2) /\ RatingAt(2) = RatingAt(3)
  /\ Run.out.bestMatch = Ref(1, 2)

\* C9: two executeSwarm invocations that overlap do not share CallStatus
\* state: the result of each holds exactly one status per provider passed to
\* it and none written by the other, also on one orchestrator instance.
C9_InvocationsIsolated ==
  \A r \in RunIds :
    runs[r].pc = "done" =>
      runs[r].out.callStatuses =
        [k \in 1..Len(runs[r].providers) |-> Ref(r, k)]

\* C10: in the returned SwarmResult every entry of callStatuses is in
\* exactly one of successfulBookings (success), failedCalls (failed or
\* timeout) and cancelledCalls (cancelled), and none is pending or calling.
C10_ListsPartitionStatuses ==
  Returned =>
    LET out == Run.out
        succ == Range(out.successfulBookings)
        fail == Range(out.failedCalls)
        canc == Range(out.cancelledCalls)
    IN
    /\ succ \cap fail = {} /\ succ \cap canc = {} /\ fail \cap canc = {}
    /\ succ \cup fail \cup canc = Range(out.callStatuses)
    /\ \A ref \in Range(out.callStatuses) :
         /\ objs[ref].status \notin {"pending", "calling"}
         /\ ref \in succ <=> objs[ref].status = "success"
         /\ ref \in fail <=> objs[ref].status \in {"failed", "timeout"}
         /\ ref \in canc <=> objs[ref].status = "cancelled"

\* A returned result with a timeout among the failures, a success and a
\* cancelled call.
C10_Witness ==
  /\ Returned
  /\ \E ref \in Range(Run.out.failedCalls) : objs[ref].status = "timeout"
  /\ Run.out.successfulBookings # <<>>
  /\ Run.out.cancelledCalls # <<>>

\* C11: no exception escapes executeSwarm: a provider the lookup does not
\* know ends as a failed status with a CallResult attached that carries a
\* message, and any other failure inside one call, the status callback's
\* included, ends as a status of that call (none is left pending or calling
\* in the returned result) and is not thrown to the caller of executeSwarm.
C11_NoExceptionEscapes ==
  /\ Run.pc # "threw"
  /\ Returned =>
       \A k \in Positions :
         /\ StatusAt(k).status \in Settled \cup {"cancelled"}
         /\ (getProvider(Run.providers[k]) = Null /\ Run.calls[k].neg = "delivered")
              => /\ StatusAt(k).status = "failed"
                 /\ StatusAt(k).result # Null
                 /\ StatusAt(k).result.message = "Provider not found in directory"

\* The provider id of the best match of the returned result.
BestMatchId == objs[Run.out.bestMatch].providerId

\* C12 (as claimed): in the run over providers rated 4.8, 4.2 and 3.5 with
\* maxConcurrentCalls = 5 and stopOnFirstSuccess, if provider 1 succeeds then
\* bestMatch is provider 1 and cancelledCalls is empty.
C12_ProviderOneIsBestMatch ==
  (Returned /\ StatusAt(1).status = "success") =>
    /\ Run.out.bestMatch # NoRef
    /\ BestMatchId = Run.providers[1]
    /\ Run.out.cancelledCalls = <<>>

\* C12 (amended): in that run, if provider 1 succeeds and no other provider
\* succeeds with an earlier bookedSlot, then bestMatch is provider 1; and
\* cancelledCalls is empty whenever provider 1 succeeds.
C12_ProviderOneBestUnlessEarlier ==
  (Returned /\ StatusAt(1).status = "success") =>
    /\ Run.out.cancelledCalls = <<>>
    /\ Run.out.bestMatch # NoRef
    /\ (\A j \in Succeeded : BookedAt(j) >= BookedAt(1))
         => BestMatchId = Run.providers[1]

\* Providers 1 and 2 both booked 10:30 and provider 1, rated higher, is the
\* best match.
C12_Witness ==
  /\ Returned
  /\ Run.providers = ScenarioList
  /\ {1, 2} \subseteq Succeeded
  /\ BookedAt(1) = BookedAt(2)
  /\ BestMatchId = Run.providers[1]
  /\ Run.out.cancelledCalls = <<>>

\* C13: executeSwarm on an empty provider list launches no call (it makes
\* no batch and no status object and never awaits one) and returns
\* totalProviders = 0, bestMatch = null and empty successfulBookings,
\* failedCalls, cancelledCalls and callStatuses.
C13_EmptyListEmptyResult ==
  (Run.pc # "idle" /\ Run.providers = <<>>) =>
    /\ Run.pc \in {"batching", "loop", "done"}
    /\ Run.batches = <<>>
    /\ \A ref \in DOMAIN objs : ref[1] # 1
    /\ Returned =>
         Run.out = [totalProviders |-> 0, successfulBookings |-> <<>>,
                    failedCalls |-> <<>>, cancelledCalls |-> <<>>,
                    bestMatch |-> NoRef, callStatuses |-> <<>>]

\* An empty list has been run to its result, with a batch size of 0.
C13_Witness ==
  /\ Returned
  /\ Run.providers = <<>>
  /\ Run.out.totalProviders = 0
  /\ config.maxConcurrentCalls = 0

\* What a callback has been handed for a status that is now in a state: one
\* entry per transition made, in the order made.
Observed(state) ==
  CASE state = "pending"   -> <<>>
    [] state = "calling"   -> <<"calling">>
    [] state = "cancelled" -> <<"cancelled">>
    [] OTHER               -> <<"calling", state>>

\* C15: the status callback is called in the step of every status
\* transition, once per transition and before the status changes again: for
\* each provider it has been handed calling and then exactly one of success,
\* failed and timeout, or cancelled alone, as far as the status has come.
C15_CallbackSeesEveryTransition ==
  Run.pc # "idle" =>
    \A k \in Positions : notified[Ref(1, k)] = Observed(StatusAt(k).status)

\* The callback has seen one call time out, one succeed and one cancelled.
C15_Witness ==
  /\ Returned
  /\ \E k \in Positions : notified[Ref(1, k)] = <<"calling", "timeout">>
  /\ \E k \in Positions : notified[Ref(1, k)] = <<"calling", "success">>
  /\ \E k \in Positions : notified[Ref(1, k)] = <<"cancelled">>

\* The negotiation called from outside the orchestrator has returned.
Negotiated == negotiation.pc = "done"

Single == negotiation.mode = "single"

CallResult == negotiation.result

Callee == getProvider(negotiation.providerId)

\* C14: the single call of initiate_provider_call is under the per-call
\* timeout as a call of executeSwarm is: once timeoutMs has passed it is no
\* longer awaited (it has ended, as a timeout when not finished).
C14_SingleCallTimesOut ==
  ~(Single /\ negotiation.pc = "awaiting" /\ negotiation.elapsed)

\* C16: for every CallResult a negotiation returns, on every path (success,
\* alternative offered, no slots, provider not found), waitTime is the sum
\* of the delays of its transcript lines.
C16_WaitTimeIsSumOfDelays ==
  Negotiated => CallResult.waitTime = SumDelays(CallResult.transcript)

\* C17: a negotiation with a provider id the lookup does not know returns
\* success = false, the message "Provider not found", exactly one transcript
\* line, no bookedSlot and no alternativeSlots.
C17_UnknownProviderResult ==
  (Negotiated /\ Callee = Null) =>
    /\ ~CallResult.success
    /\ CallResult.message = "Provider not found"
    /\ Len(CallResult.transcript) = 1
    /\ CallResult.bookedSlot = NoSlot
    /\ CallResult.alternativeSlots = <<>>

\* The local hour of the requested slot: that of its instant in the zone of
\* the process.
RequestedHour ==
  LET slot == negotiation.requestedSlot
      utc == IF slot.z THEN slot.t ELSE slot.t - timeZone
  IN ((utc + timeZone) \div 60) % 24

AfterHoursWindow == {22, 23} \cup 0..7

\* Some slot of the callee lies within 60 minutes of the requested slot.
SlotNearby ==
  \E n \in 1..Len(Callee.availableSlots) :
    Abs(getTime(Callee.availableSlots[n]) - getTime(negotiation.requestedSlot))
      <= 60

\* The draw is below the personality's availability probability plus 0.1.
DrawBelowRate ==
  negotiation.draw < PERSONALITIES[personalityType(Callee.rating)].availabilityRate + 10

C19_BookedSlotFromAvailability ==
  (Negotiated /\ Single /\ Callee # Null) =>
    LET slots == Callee.availableSlots
        Near(slot) == Abs(getTime(slot) - getTime(negotiation.requestedSlot)) <= 60
    IN
    /\ CallResult.bookedSlot # NoSlot <=> CallResult.success
    /\ CallResult.success =>
         /\ Near(CallResult.bookedSlot)
         /\ \E n \in 1..Len(slots) :
              /\ slots[n] = CallResult.bookedSlot
              /\ \A j \in 1..(n - 1) : ~Near(slots[j])
    /\ ~SlotNearby => ~CallResult.success

\* C20 (as claimed): for every CallResult with success = false and non-empty
\* alternativeSlots, every slot in alternativeSlots is an element of the
\* provider's availableSlots.
C20_AlternativesFromAvailability ==
  (Negotiated /\ Callee # Null /\ ~CallResult.success
     /\ CallResult.alternativeSlots # <<>>) =>
    \A n \in 1..Len(CallResult.alternativeSlots) :
      CallResult.alternativeSlots[n] \in Range(Callee.availableSlots)

\* C20 (amended): for every CallResult with success = false and non-empty
\* alternativeSlots, alternativeSlots holds one slot: availableSlots[0]
\* written without its zone when the hour it is written with is in 8..18,
\* and 10:00 of the day it is written with otherwise.
C20_AlternativeIsFirstOrTenOClock ==
  (Negotiated /\ Callee # Null /\ ~CallResult.success
     /\ CallResult.alternativeSlots # <<>>) =>
    LET first == Callee.availableSlots[1]
        hour == (first.t \div 60) % 24
        day == first.t \div 1440
    IN CallResult.alternativeSlots =
         <<IF hour \in 8..18 THEN [t |-> first.t, z |-> FALSE]
           ELSE [t |-> day * 1440 + 600, z |-> FALSE]>>

\* A failed negotiation offered 10:00 of the next day for a first slot at
\* 07:30 of that day, and 10:00 is no slot of the provider.
C20_Witness ==
  /\ Negotiated /\ Callee # Null /\ ~CallResult.success
  /\ Callee.availableSlots # <<>>
  /\ Callee.availableSlots[1] = Bare(1440 + 450)
  /\ CallResult.alternativeSlots = <<Bare(1440 + 600)>>
  /\ Bare(1440 + 600) \notin Range(Callee.availableSlots)

\* A known provider refused and offered alternatives.
Offered ==
  /\ Negotiated /\ Callee # Null
  /\ ~CallResult.success
  /\ CallResult.alternativeSlots # <<>>

\* The local hour of a slot and the local calendar day it falls on.
LocalMinutes(slot) == (IF slot.z THEN slot.t ELSE slot.t - timeZone) + timeZone

LocalHour(slot) == (LocalMinutes(slot) \div 60) % 24

LocalDay(slot) == LocalMinutes(slot) \div 1440

C22_AlternativesIffFailedWithSlots ==
  (Negotiated /\ Callee # Null) =>
    /\ CallResult.alternativeSlots # <<>>
         <=> (~CallResult.success /\ Callee.availableSlots # <<>>)
    /\ Callee.availableSlots = <<>> =>
         (~CallResult.success /\ CallResult.alternativeSlots = <<>>)

\* A provider with one slot refused and offered an alternative.
C22_Witness ==
  /\ Negotiated /\ Callee # Null
  /\ Len(Callee.availableSlots) = 1
  /\ ~CallResult.success
  /\ Len(CallResult.alternativeSlots) = 1

\* The think-time and the availability probability (in hundredths) the
\* claim gives a rating (in tenths).
ThinkTime(rating) ==
  IF rating >= 45 THEN 1200 ELSE IF rating >= 40 THEN 1800 ELSE 2500

Probability(rating) ==
  IF rating >= 45 THEN 80 ELSE IF rating >= 40 THEN 60 ELSE 40

\* C23: when a slot lies within 60 minutes of a request that is not after
\* hours, the negotiation succeeds iff the draw is below the availability
\* probability plus 0.1 of the personality the rating fixes: >= 4.5 friendly
\* (1200 ms, 0.8), >= 4.0 neutral (1800 ms, 0.6), lower busy (2500 ms, 0.4).
C23_SuccessIffDrawBelowRate ==
  (Negotiated /\ Single /\ Callee # Null
     /\ RequestedHour \notin AfterHoursWindow /\ SlotNearby) =>
    /\ CallResult.success <=> negotiation.draw < Probability(Callee.rating) + 10
    /\ CallResult.transcript[3].delay = ThinkTime(Callee.rating)

\* A provider rated 4.0 accepted on a draw of 0.6.
C23_Witness ==
  /\ Negotiated /\ Single /\ Callee # Null
  /\ RequestedHour \notin AfterHoursWindow /\ SlotNearby
  /\ Callee.rating = 40
  /\ negotiation.draw = 60
  /\ CallResult.success

\* The delays and roles of a transcript, in order.
Delays(transcript) == [n \in 1..Len(transcript) |-> transcript[n].delay]

Steps(transcript) == [n \in 1..Len(transcript) |-> transcript[n].line]

\* C24: a negotiation with a known provider runs greeting (500), request
\* (800), lookup (the think-time), then one resolution, nothing repeated or
\* skipped; on success the resolution is three lines of delays 1000, 500,
\* 800: six lines and waitTime = 3600 + think-time.
C24_LinearTranscript ==
  (Negotiated /\ Callee # Null) =>
    LET transcript == CallResult.transcript
        think == ThinkTime(Callee.rating)
        resolution == SubSeq(transcript, 4, Len(transcript))
    IN
    /\ Len(transcript) >= 4
    /\ Steps(SubSeq(transcript, 1, 3)) = <<"greeting", "request", "requestResponse">>
    /\ Delays(SubSeq(transcript, 1, 3)) = <<500, 800, think>>
    /\ Steps(resolution) \in {<<"available", "confirm", "booked">>,
                              <<"unavailable", "checkWithUser">>,
                              <<"noSlots">>}
    /\ CallResult.success =>
         /\ Steps(resolution) = <<"available", "confirm", "booked">>
         /\ Delays(resolution) = <<1000, 500, 800>>
         /\ Len(transcript) = 6
         /\ CallResult.waitTime = 3600 + think

\* A busy provider accepted: six lines and 6100 ms.
C24_Witness ==
  /\ Negotiated /\ Callee # Null
  /\ CallResult.success
  /\ Callee.rating < 40
  /\ Len(CallResult.transcript) = 6
  /\ CallResult.waitTime = 6100

\* rankProviders has returned.
Ranked == ranking.pc \in {"ranked", "again"}

\* The position of a provider in the list rankProviders was given.
GivenAt(id) == CHOOSE n \in 1..Len(ranking.providers) : ranking.providers[n].id = id

\* C25: rankProviders returns every provider it was given exactly once (none
\* for an empty list), by finalScore descending, providers of equal
\* finalScore in the order they were given; a second call with the same
\* arguments returns the same order.
C25_RankIsStableDescending ==
  Ranked =>
    LET given == ranking.providers
        ranked == ranking.ranked
    IN
    /\ Len(ranked) = Len(given)
    /\ \A n \in 1..Len(given) :
         Cardinality({m \in 1..Len(ranked) : ranked[m].id = given[n].id}) = 1
    /\ \A a, b \in 1..Len(ranked) :
         a < b =>
           /\ ranked[a].finalScore >= ranked[b].finalScore
           /\ ranked[a].finalScore = ranked[b].finalScore =>
                GivenAt(ranked[a].id) < GivenAt(ranked[b].id)
    /\ ranking.pc = "again" =>
         [n \in 1..Len(ranking.again) |-> ranking.again[n].id]
           = [n \in 1..Len(ranked) |-> ranked[n].id]

\* Three providers came back in another order than given, two of them with
\* the same finalScore, and a second call gave the same.
C25_Witness ==
  /\ ranking.pc = "again"
  /\ Len(ranking.ranked) = 3
  /\ \E a, b \in 1..3 :
       a < b /\ ranking.ranked[a].finalScore = ranking.ranked[b].finalScore
  /\ \E n \in 1..3 : ranking.ranked[n].id # ranking.providers[n].id

\* A slot of the provider lies in the window of the intent, bounds included.
HasSlotInWindow(provider) ==
  \E n \in 1..Len(provider.availableSlots) :
    LET Instant(slot) == IF slot.z THEN slot.t ELSE slot.t - timeZone
        t == Instant(provider.availableSlots[n])
    IN /\ Instant(ranking.intent.preferredTimeRange.start) <= t
       /\ t <= Instant(ranking.intent.preferredTimeRange.end)

\* The distance term of the claim, in tenths of a point.
DistanceTerm(provider) ==
  LET raw == ranking.weights.maxDistanceScore * 10
               - provider.distanceMiles * ranking.weights.distanceDecayPerMile
  IN IF raw > 0 THEN raw ELSE 0

\* C26: finalScore = rating * ratingMultiplier + max(0, maxDistanceScore -
\* distanceMiles * distanceDecayPerMile) + (slotMatchBonus if a slot lies in
\* the window, else 0); with the default weights a provider rated 5.0, at
\* distance 0 and with a slot in the window scores exactly 100.
C26_FinalScoreFormula ==
  Ranked =>
    \A n \in 1..Len(ranking.ranked) :
      LET p == ranking.ranked[n] IN
      /\ p.finalScore
           = p.rating * ranking.weights.ratingMultiplier
             + DistanceTerm(p)
             + (IF HasSlotInWindow(p)
                  THEN ranking.weights.slotMatchBonus * 10 ELSE 0)
      /\ p.finalScore - p.rating * ranking.weights.ratingMultiplier >= 0
      /\ (/\ ranking.weights = [ratingMultiplier |-> 10,
                                maxDistanceScore |-> 30,
                                distanceDecayPerMile |-> 5,
                                slotMatchBonus |-> 20]
          /\ p.rating = 50 /\ p.distanceMiles = 0 /\ HasSlotInWindow(p))
           => p.finalScore = 1000

\* The 5.0 at the door scored 100 next to a provider 8 miles away.
C26_Witness ==
  /\ Ranked
  /\ ranking.weights.ratingMultiplier = 10
  /\ \E n, m \in 1..Len(ranking.ranked) :
       /\ ranking.ranked[n].rating = 50
       /\ ranking.ranked[n].finalScore = 1000
       /\ ranking.ranked[m].distanceMiles = 80

\* The positions of the slots of a provider that lie in the window.
PositionsInWindow(provider) ==
  {n \in 1..Len(provider.availableSlots) :
     LET Instant(slot) == IF slot.z THEN slot.t ELSE slot.t - timeZone
         t == Instant(provider.availableSlots[n])
     IN /\ Instant(ranking.intent.preferredTimeRange.start) <= t
        /\ t <= Instant(ranking.intent.preferredTimeRange.end)}

\* C27: matchingSlots is the subsequence of availableSlots whose time t has
\* intent.start <= t <= intent.end, every match kept and in the original
\* order; the slot-match bonus is added iff matchingSlots is not empty.
C27_MatchingSlotsAreWindow ==
  Ranked =>
    \A n \in 1..Len(ranking.ranked) :
      LET p == ranking.ranked[n]
          inside == PositionsInWindow(p)
          \* the k-th position of inside, counted from the left
          Kth(k) == CHOOSE j \in inside :
                      Cardinality({i \in inside : i <= j}) = k
      IN
      /\ Len(p.matchingSlots) = Cardinality(inside)
      /\ \A k \in 1..Len(p.matchingSlots) :
           p.matchingSlots[k] = p.availableSlots[Kth(k)]
      /\ p.finalScore - p.rating * ranking.weights.ratingMultiplier
           - DistanceTerm(p)
           = (IF p.matchingSlots # <<>>
                THEN ranking.weights.slotMatchBonus * 10 ELSE 0)

\* Of the slots 12:00, 09:00, 10:00 the window 10:00 to 12:00 kept 12:00
\* and 10:00, in that order.
C27_Witness ==
  /\ Ranked
  /\ \E n \in 1..Len(ranking.ranked) :
       /\ Len(ranking.ranked[n].availableSlots) = 3
       /\ ranking.ranked[n].matchingSlots = <<Bare(720), Bare(600)>>

TimesSeen(ref, state) ==
  Cardinality({n \in 1..Len(notified[ref]) : notified[ref][n] = state})

\* C29: within one run each provider is negotiated at most once: its status
\* enters calling at most once, and a call that failed or timed out is not
\* in flight again, whatever retryFailedCalls is.
C29_NoRetry ==
  Run.pc # "idle" =>
    \A k \in Positions :
      /\ TimesSeen(Ref(1, k), "calling") <= 1
      /\ StatusAt(k).status \in {"failed", "timeout"} =>
           Run.calls[k].state # "racing"

\* A run told to retry failed calls has returned with a failed call and a
\* timed-out one, each called once.
C29_Witness ==
  /\ Returned
  /\ config.retryFailedCalls
  /\ \E k \in Positions : StatusAt(k).status = "failed"
  /\ \E k \in Positions : StatusAt(k).status = "timeout"
  /\ \A k \in Positions : TimesSeen(Ref(1, k), "calling") = 1

\* The step in which executeSwarm is called.
StartStep == Run.pc \in {"idle", "done"} /\ Run'.pc = "batching"

Terminal == {"success", "failed", "timeout", "cancelled"}

\* C30: every status starts in pending and moves only along pending ->
\* calling -> success, failed or timeout, or pending -> cancelled; these
\* four are terminal, and a terminal status keeps its state and its
\* CallResult for the rest of the run.
C30_StatusLifecycle ==
  [][/\ StartStep =>
          \A k \in 1..Len(Run'.providers) :
            /\ StatusAt(k)'.status = "pending"
            /\ StatusAt(k)'.result = Null
     /\ (Run.pc # "idle" /\ ~StartStep) =>
          \A k \in Positions :
            /\ StatusAt(k).status # StatusAt(k)'.status =>
                 <<StatusAt(k).status, StatusAt(k)'.status>> \in
                   {<<"pending", "calling">>, <<"pending", "cancelled">>,
                    <<"calling", "success">>, <<"calling", "failed">>,
                    <<"calling", "timeout">>}
            /\ StatusAt(k).status \in Terminal => StatusAt(k)' = StatusAt(k)
            /\ StatusAt(k)'.result # StatusAt(k).result =>
                 StatusAt(k)'.status \in {"success", "failed"}
    ]_vars

\* A returned run holds a success with its CallResult, a timeout without
\* one and a cancelled status.
C30_Witness ==
  /\ Returned
  /\ \E k \in Positions :
       StatusAt(k).status = "success" /\ StatusAt(k).result # Null
  /\ \E k \in Positions :
       StatusAt(k).status = "timeout" /\ StatusAt(k).result = Null
  /\ \E k \in Positions : StatusAt(k).status = "cancelled"

\* The number of the callback's call that reported the k-th provider in
\* one of states, 0 when it has not.
ReportedAt(k, states) ==
  LET log == notified[Ref(1, k)]
      hits == {n \in 1..Len(log) : log[n].status \in states}
  IN IF hits = {} THEN 0 ELSE log[CHOOSE n \in hits : TRUE].at

\* The positions of the statuses of a list of the SwarmResult.
PositionsOf(list) == [n \in 1..Len(list) |-> list[n][2]]

Increasing(seq) == \A a, b \in 1..Len(seq) : a < b => seq[a] < seq[b]

\* C31: the calls of a batch are launched in input order: their calling
\* transitions are reported in input order, all of them before any call of
\* the batch settles; the order in which the calls complete does not show
\* in the SwarmResult: its three lists are in input order and bestMatch is
\* chosen by slot, rating and input position.
C31_LaunchOrderNotCompletionOrder ==
  Batched =>
    /\ \A k, j \in Positions :
         (BatchOf(k) = BatchOf(j) /\ ReportedAt(j, {"calling"}) > 0) =>
           /\ ReportedAt(k, {"calling"}) > 0
           /\ k < j => ReportedAt(k, {"calling"}) < ReportedAt(j, {"calling"})
           /\ ReportedAt(k, Settled) > 0 =>
                ReportedAt(j, {"calling"}) < ReportedAt(k, Settled)
    /\ Returned =>
         /\ Increasing(PositionsOf(Run.out.successfulBookings))
         /\ Increasing(PositionsOf(Run.out.failedCalls))
         /\ Increasing(PositionsOf(Run.out.cancelledCalls))
         /\ \A k \in Succeeded :
              LET best == Run.out.bestMatch[2] IN
              \/ k = best
              \/ BookedAt(best) < BookedAt(k)
              \/ /\ BookedAt(best) = BookedAt(k)
                 /\ RatingAt(best) > RatingAt(k)
              \/ /\ BookedAt(best) = BookedAt(k)
                 /\ RatingAt(best) = RatingAt(k)
                 /\ best < k

\* Two providers rated alike were launched first then second in one batch,
\* the second completed before the first, both booked the same slot, and
\* the first is the best match and the first of successfulBookings.
C31_Witness ==
  /\ Returned
  /\ Len(Run.providers) >= 2
  /\ BatchOf(1) = BatchOf(2)
  /\ ReportedAt(1, {"calling"}) < ReportedAt(2, {"calling"})
  /\ ReportedAt(2, {"success"}) > 0
  /\ ReportedAt(2, {"success"}) < ReportedAt(1, {"success"})
  /\ BookedAt(1) = BookedAt(2)
  /\ RatingAt(1) = RatingAt(2)
  /\ Run.out.bestMatch = Ref(1, 1)
  /\ PositionsOf(Run.out.successfulBookings) = <<1, 2>>

\* C32: in a run on which abort() is never called, cancelledCalls is not
\* empty only if successfulBookings is not empty and stopOnFirstSuccess is
\* enabled; with stopOnFirstSuccess disabled every provider is called and
\* ends in success, failed or timeout.
C32_CancelledOnlyAfterSuccess ==
  Returned =>
    /\ Run.out.cancelledCalls # <<>> =>
         (Run.out.successfulBookings # <<>> /\ config.stopOnFirstSuccess)
    /\ ~config.stopOnFirstSuccess =>
         \A k \in Positions :
           /\ ReportedAt(k, {"calling"}) > 0
           /\ StatusAt(k).status \in Settled

\* With stopOnFirstSuccess disabled the first of three batches held a
\* success and the two after it were called all the same.
C32_Witness ==
  /\ Returned
  /\ ~config.stopOnFirstSuccess
  /\ Len(Run.batches) = 3
  /\ StatusAt(1).status = "success"
  /\ \A k \in Positions : StatusAt(k).status \in Settled
  /\ Run.out.cancelledCalls = <<>>

\* C33: with stopOnFirstSuccess enabled the statuses of successfulBookings
\* are all of one batch, the last that was launched; every provider of an
\* earlier batch is failed or timeout and every provider of a later batch
\* is cancelled.
C33_SuccessesInLastLaunchedBatch ==
  (Returned /\ config.stopOnFirstSuccess /\ Succeeded # {}) =>
    \E b \in 1..Len(Run.batches) :
      /\ \A k \in Succeeded : BatchOf(k) = b
      /\ \A k \in Positions :
           /\ BatchOf(k) < b => StatusAt(k).status \in {"failed", "timeout"}
           /\ BatchOf(k) = b => StatusAt(k).status \in Settled
           /\ BatchOf(k) > b => StatusAt(k).status = "cancelled"

\* Of three batches of one the first timed out, the second succeeded and
\* the third was cancelled.
C33_Witness ==
  /\ Returned
  /\ config.stopOnFirstSuccess
  /\ Len(Run.batches) = 3
  /\ StatusAt(1).status = "timeout"
  /\ StatusAt(2).status = "success"
  /\ StatusAt(3).status = "cancelled"

\* A step of abort() that changed something: no invocation moved.
AbortStep ==
  /\ runs' = runs
  /\ <<objs, abortController, notified>>' # <<objs, abortController, notified>>

\* C34: an abort() during a run turns every pending status into cancelled
\* and leaves the others alone; once the signal is aborted no call is
\* launched; the calls in flight settle with their own outcome, whatever
\* stopOnFirstSuccess is; executeSwarm starts with a new signal and pending
\* statuses whatever abort() did before.
C34_AbortDuringRun ==
  [][/\ (AbortStep /\ Run.pc = "await") =>
          /\ abortController' = "aborted"
          /\ \A k \in Positions :
               StatusAt(k)' =
                 IF StatusAt(k).status = "pending"
                   THEN [StatusAt(k) EXCEPT !.status = "cancelled"]
                   ELSE StatusAt(k)
     /\ (SameRun /\ abortController = "aborted") =>
          /\ abortController' = "aborted"
          /\ \A k \in Positions :
               LET old == StatusAt(k)
                   new == StatusAt(k)'
                   after == Run'.calls[k]
               IN
               /\ new.status = "calling" => old.status = "calling"
               /\ (old.status = "calling" /\ new.status # "calling") =>
                    /\ new.status \in Settled
                    /\ after.timer = "fired" =>
                         new.status = "timeout" /\ new.result = Null
                    /\ after.neg = "delivered" =>
                         /\ new.result # Null
                         /\ new.status =
                              IF new.result.success THEN "success" ELSE "failed"
          /\ Returned' => \A k \in Positions : StatusAt(k)'.status \in Terminal
     /\ StartStep =>
          /\ abortController' = "live"
          /\ \A k \in 1..Len(Run'.providers) :
               objs'[Ref(1, k)].status = "pending"
    ]_vars

\* Every call is allowed to fail, abort() came with the first call in flight:
\* that call succeeded afterwards, the others were cancelled and never
\* launched, and the run has returned.
C34_Witness ==
  /\ Returned
  /\ ~config.stopOnFirstSuccess
  /\ config.maxConcurrentCalls = 1
  /\ Len(Run.providers) = 3
  /\ abortController = "aborted"
  /\ StatusAt(1).status = "success"
  /\ StatusAt(2).status = "cancelled"
  /\ StatusAt(3).status = "cancelled"

SwarmDone == swarm.pc = "done"

\* C35: simulateSwarmCalls runs one call per given id, each once; a call
\* starts as soon as its delay has passed, however many are in flight and
\* whatever the others returned; it returns one CallResult per input id in
\* input order, each the receptionist's own answer for that id.
C35_SwarmCallsAllOnceInOrder ==
  /\ swarm.pc # "none" =>
       /\ Len(swarm.calls) = Len(swarm.providerIds)
       /\ \A k \in 1..Len(swarm.calls) :
            /\ swarm.calls[k].times = IF swarm.calls[k].state = "delayed" THEN 0 ELSE 1
            /\ (/\ swarm.pc = "awaiting"
                /\ swarm.calls[k].state = "delayed"
                /\ \A j \in 1..(k - 1) : swarm.calls[j].state # "delayed")
                 => ENABLED DelayPasses(k)
            /\ (swarm.pc = "awaiting" /\ swarm.calls[k].state = "calling")
                 => ENABLED SwarmCallReturns(k)
  /\ SwarmDone =>
       /\ Len(swarm.out.results) = Len(swarm.providerIds)
       /\ swarm.out.response.total_calls = Len(swarm.providerIds)
       /\ swarm.out.response.successful_bookings
            + swarm.out.response.failed_or_unavailable = Len(swarm.providerIds)
       /\ \A k \in 1..Len(swarm.providerIds) :
            /\ swarm.calls[k].times = 1
            /\ swarm.out.results[k] = swarm.calls[k].result
            /\ swarm.out.results[k].providerId = swarm.providerIds[k]
            /\ swarm.out.response.results[k].provider_id = swarm.providerIds[k]
            /\ \E draw \in Draws :
                 swarm.out.results[k] =
                   simulateSwarmCall(swarm.providerIds[k],
                                     swarm.preferredTimeRange, draw)

\* Three calls to two providers: the last returned first with a booking,
\* the others after it, and the results are in input order.
C35_Witness ==
  /\ SwarmDone
  /\ swarm.providerIds = <<2, 1, 2>>
  /\ swarm.first = 3
  /\ swarm.out.results[3].success
  /\ ~swarm.out.results[1].success
  /\ swarm.out.results[2].success

\* The statuses an orchestrator would hold of the same results, in the same
\* order.
StatusesOf(results) ==
  [ref \in {Ref(1, k) : k \in 1..Len(results)} |->
     [providerId |-> results[ref[2]].providerId,
      status |-> IF results[ref[2]].success THEN "success" ELSE "failed",
      result |-> results[ref[2]]]]

\* C36: of the same successful calls in the same order, the reduce of
\* simulateSwarmCalls and the sort of selectBestMatch choose the same call.
C36_ReduceChoosesAsSort ==
  SwarmDone =>
    LET results == swarm.out.results
        chosen == selectBestMatch([k \in 1..Len(results) |-> Ref(1, k)],
                                  StatusesOf(results))
    IN chosen = IF swarm.out.bestMatch = NoMatch THEN NoRef
                ELSE Ref(1, swarm.out.bestMatch)

\* Three bookings at 10:30: the first provider is rated lower than the
\* other two, which are rated alike, and the second is chosen.
C36_Witness ==
  /\ SwarmDone
  /\ swarm.providerIds = <<2, 1, 3>>
  /\ \A k \in 1..3 :
       /\ swarm.out.results[k].success
       /\ swarm.out.results[k].bookedSlot = Bare(630)
  /\ swarm.out.bestMatch = 2

\* A step in which a search stored its session.
Stored == search'.sessions # search.sessions

\* C37: every search_providers call adds one new entry to the session map
\* and leaves the entries of the other searches as they are, and a value it
\* was not given is that of the intent of the search stored last before it,
\* the default only when none was stored.
C37_SessionPerSearch ==
  [][/\ Stored =>
          /\ Len(search'.sessions) = Len(search.sessions) + 1
          /\ \A n \in 1..Len(search.sessions) :
               search'.sessions[n] = search.sessions[n]
          /\ search'.sessions[Len(search'.sessions)].ref.intent = search'.last.intent
     /\ search'.started # search.started =>
          LET call == search'.last
              before == lastSessionOf(search.sessions)
              start == call.intent.preferredTimeRange.start
              earlier == before.intent.preferredTimeRange.start
          IN
          /\ call.intent.serviceType =
               IF call.params.service_type # Omitted THEN call.params.service_type
               ELSE IF before # Null THEN before.intent.serviceType
               ELSE "general service"
          /\ start.date =
               IF call.params.preferred_date # Omitted THEN call.params.preferred_date
               ELSE IF before # Null THEN earlier.date
               ELSE Today
          /\ <<start.h, start.m>> =
               IF call.params.preferred_time # NoTime
                 THEN <<call.params.preferred_time.h, call.params.preferred_time.m>>
               ELSE IF before # Null THEN <<earlier.h, earlier.m>>
               ELSE <<14, 0>>
          /\ call.intent.userLocation =
               IF call.params.location # Omitted THEN call.params.location
               ELSE IF before # Null THEN before.intent.userLocation
               ELSE "Boston"
    ]_vars

\* The status shown for the k-th step, none when there are no steps.
StepStatus(k) ==
  IF k \in 1..Len(component.steps) THEN component.steps[k].status ELSE "none"

Calling(k) == StepStatus(k) = "calling"

\* C38: while BookingStatus stays visible, whatever its parent passes when
\* it renders it again, a step that is calling does not stay so for ever,
\* some step reaches success, onComplete is called once for it and never
\* twice, and at most one step is calling at a time.
C38_SimulationCompletes ==
  /\ \A k \in 1..3 : Calling(k) ~> ~Calling(k)
  /\ (component.pc = "mounted")
       ~> (/\ \E k \in 1..3 : StepStatus(k) = "success"
           /\ component.completed # <<>>)
  /\ [](\A a, b \in 1..Len(component.completed) :
          component.completed[a].run = component.completed[b].run => a = b)
  /\ [](component.pc = "mounted" =>
          \A a, b \in 1..3 : Calling(a) /\ Calling(b) => a = b)

\* C39: every request is answered and calls at most one handler; a body
\* without tool_name is answered 400 and no handler is called; a tool_name
\* that names no tool is answered 200 with a result that holds the error
\* "Unknown tool"; every 200 response carries the request's tool_call_id.
C39_WebhookAnswers ==
  \A n \in 1..Len(webhook.served) :
    LET body == webhook.served[n].body
        handlers == webhook.served[n].handlers
        response == webhook.served[n].response
    IN
    /\ response.status \in {200, 400, 500}
    /\ Len(handlers) <= 1
    /\ falsy(body.tool_name) => response.status = 400 /\ handlers = <<>>
    /\ (~falsy(body.tool_name) /\ body.tool_name \notin Handlers \cup {"warmup"}) =>
         /\ response.status = 200
         /\ handlers = <<>>
         /\ response.result = [error |-> <<"Unknown tool", body.tool_name>>]
    /\ response.status = 200 => response.tool_call_id = body.tool_call_id

\* C39, amended: as C39, but it is a body that is a JSON value other than
\* null and has no tool_name that is answered 400; a body that is no JSON
\* or is null is answered 500 and no handler is called.
C39_WebhookAnswersJson ==
  \A n \in 1..Len(webhook.served) :
    LET body == webhook.served[n].body
        handlers == webhook.served[n].handlers
        response == webhook.served[n].response
    IN
    /\ response.status \in {200, 400, 500}
    /\ Len(handlers) <= 1
    /\ body.json # "object" => response.status = 500 /\ handlers = <<>>
    /\ (body.json = "object" /\ falsy(body.tool_name)) =>
         response.status = 400 /\ handlers = <<>>
    /\ (~falsy(body.tool_name) /\ body.tool_name \notin Handlers \cup {"warmup"}) =>
         /\ response.status = 200
         /\ handlers = <<>>
         /\ response.result = [error |-> <<"Unknown tool", body.tool_name>>]
    /\ response.status = 200 => response.tool_call_id = body.tool_call_id

\* An object without tool_name was answered 400, and then a request for a
\* tool that does not exist was answered with its tool_call_id.
C39_Witness ==
  /\ Len(webhook.served) = 2
  /\ webhook.served[1].body.json = "object"
  /\ webhook.served[1].body.tool_name = Absent
  /\ webhook.served[1].body.tool_call_id = "call_1"
  /\ webhook.served[1].response.status = 400
  /\ webhook.served[2].body.tool_name = "cancel_booking"
  /\ webhook.served[2].response.status = 200
  /\ webhook.served[2].response.tool_call_id = "call_1"

====
